---- MODULE Spec2Model ----
(***************************************************************************)
(* A model of the resume parsing service (app/parsing.py, app/main.py,     *)
(* app/tasks.py).  Texts are sequences of one-character strings, the       *)
(* extractors are operators that match the regular expressions of the      *)
(* source character by character, and a float is an IEEE-754 binary64      *)
(* value held as a pair of integers.                                       *)
(***************************************************************************)
EXTENDS Integers, Sequences, FiniteSets, TLC

VARIABLES pc, call, ret, lib, tasks, sem, loc, sheet, redis, reader, frames

vars == <<pc, call, ret, lib, tasks, sem, loc, sheet, redis, reader, frames>>

\* The state of a batch: the coroutines of process_single_file, one for each
\* listed file, the value of the semaphore, the locals of the handler, the
\* rows of the spreadsheet, the job's keys in Redis, and the client that asks
\* for the job's status or results.
batch == <<tasks, sem, loc, sheet, redis, reader, frames>>

\* No batch is running.
NoBatch ==
    /\ tasks = <<>>
    /\ sem = 0
    /\ loc = <<>>
    /\ sheet = <<>>
    /\ redis = <<>>
    /\ reader = <<>>
    /\ frames = <<>>

(***************************************************************************)
(* Optional[str]: None, or a string.                                       *)
(***************************************************************************)
None == [some |-> FALSE, val |-> <<>>]

Some(s) == [some |-> TRUE, val |-> s]

\* Python truthiness of an Optional[str]: None and "" are falsy.
Truthy(o) == o.some /\ o.val # <<>>

(***************************************************************************)
(* Characters.  A text is a sequence of one-character strings.             *)
(***************************************************************************)
LowerSeq == <<"a", "b", "c", "d", "e", "f", "g", "h", "i", "j", "k", "l", "m", "n", "o", "p", "q", "r", "s", "t", "u", "v", "w", "x", "y", "z">>

UpperSeq == <<"A", "B", "C", "D", "E", "F", "G", "H", "I", "J", "K", "L", "M", "N", "O", "P", "Q", "R", "S", "T", "U", "V", "W", "X", "Y", "Z">>

Lower == {LowerSeq[i] : i \in 1..26}

Upper == {UpperSeq[i] : i \in 1..26}

Letter == Lower \cup Upper

Digit == {"0", "1", "2", "3", "4", "5", "6", "7", "8", "9"}

Alnum == Letter \cup Digit

\* \s of the re module, for the white space the model's texts contain.
Space == {" ", "\n", "\t"}

\* \w of the re module.
WordChar == Alnum \cup {"_"}

Punct == {".", "_", "%", "+", "-", "@", ":", "/", "=", "\"", "'", "|", "(", ")", "?", ",", "<", ">"}

AllChars == Alnum \cup Space \cup Punct

\* "." of the re module without DOTALL: any character except a newline.
Dot == AllChars \ {"\n"}

\* str.lower() and str.upper() on one character.
ToLower(c) == IF c \in Upper THEN LowerSeq[CHOOSE i \in 1..26 : UpperSeq[i] = c] ELSE c

ToUpper(c) == IF c \in Lower THEN UpperSeq[CHOOSE i \in 1..26 : LowerSeq[i] = c] ELSE c

StrLower(s) == [i \in 1..Len(s) |-> ToLower(s[i])]

\* The string literals of the source, as texts.
Str ==
    [ mailto |-> <<"m", "a", "i", "l", "t", "o", ":">>,
      href |-> <<"h", "r", "e", "f", "=">>,
      email |-> <<"e", "m", "a", "i", "l">>,
      e_mail |-> <<"e", "-", "m", "a", "i", "l">>,
      mail |-> <<"m", "a", "i", "l">>,
      http |-> <<"h", "t", "t", "p">>,
      colon_slashes |-> <<":", "/", "/">>,
      www_dot |-> <<"w", "w", "w", ".">>,
      linkedin_com_in |-> <<"l", "i", "n", "k", "e", "d", "i", "n", ".", "c", "o", "m", "/", "i", "n", "/">>,
      linkedin_com_profile |-> <<"l", "i", "n", "k", "e", "d", "i", "n", ".", "c", "o", "m", "/", "p", "r", "o", "f", "i", "l", "e", "/", "v", "i", "e", "w", "?", "i", "d", "=">>,
      github_com |-> <<"g", "i", "t", "h", "u", "b", ".", "c", "o", "m", "/">>,
      linkedin |-> <<"l", "i", "n", "k", "e", "d", "i", "n">>,
      linked |-> <<"l", "i", "n", "k", "e", "d">>,
      in |-> <<"i", "n">>,
      github |-> <<"g", "i", "t", "h", "u", "b">>,
      git |-> <<"g", "i", "t">>,
      hub |-> <<"h", "u", "b">>,
      https_www |-> <<"h", "t", "t", "p", "s", ":", "/", "/", "w", "w", "w", ".">>,
      https |-> <<"h", "t", "t", "p", "s", ":", "/", "/">>,
      https_www_linkedin_com_in |-> <<"h", "t", "t", "p", "s", ":", "/", "/", "w", "w", "w", ".", "l", "i", "n", "k", "e", "d", "i", "n", ".", "c", "o", "m", "/", "i", "n", "/">>,
      https_github_com |-> <<"h", "t", "t", "p", "s", ":", "/", "/", "g", "i", "t", "h", "u", "b", ".", "c", "o", "m", "/">>,
      n91 |-> <<"9", "1">>,
      n000800 |-> <<"0", "0", "0", "8", "0", "0">>,
      n9876543210 |-> <<"9", "8", "7", "6", "5", "4", "3", "2", "1", "0">>,
      n8003569377 |-> <<"8", "0", "0", "3", "5", "6", "9", "3", "7", "7">>,
      dot_pdf |-> <<".", "p", "d", "f">>,
      dot_docx |-> <<".", "d", "o", "c", "x">>,
      Unsupported_file_type |-> <<"U", "n", "s", "u", "p", "p", "o", "r", "t", "e", "d", " ", "f", "i", "l", "e", " ", "t", "y", "p", "e", ":", " ">>,
      Parse_error |-> <<"P", "a", "r", "s", "e", " ", "e", "r", "r", "o", "r", ":", " ">>,
      out_of_memory |-> <<"o", "u", "t", " ", "o", "f", " ", "m", "e", "m", "o", "r", "y">>,
      bad_file |-> <<"b", "a", "d", " ", "f", "i", "l", "e">>,
      linkedin_link |-> <<"h", "t", "t", "p", "s", ":", "/", "/", "l", "i", "n", "k", "e", "d", "i", "n", ".", "c", "o", "m", "/", "i", "n", "/", "j", "a", "n", "e", "-", "s", "m", "i", "t", "h">> ]

(***************************************************************************)
(* Regular expressions of the re module.  A pattern is a sequence of       *)
(* atoms; ReMatch tries the alternatives of each atom in the order of      *)
(* Python's backtracking matcher and returns the first match found, with   *)
(* the span of capture group 1.                                            *)
(*   set    a character class repeated min..max times, greedy or lazy      *)
(*   setla  the same where the characters of las need a following          *)
(*          character of la: (?:[s]|[las](?=[la])){min,max}                *)
(*   alt    an alternation of patterns (?:a|b|c), tried left to right;     *)
(*          (?:a)? is the alternation of a and the empty pattern           *)
(*   wb     \b;  open, close: the parentheses of group 1                   *)
(***************************************************************************)
Inf == 999

NoMatch == [ok |-> FALSE, b |-> 0, e |-> 0, gs |-> 0, ge |-> 0]

Rep(S, lo, hi) == <<[k |-> "set", s |-> S, min |-> lo, max |-> hi, greedy |-> TRUE]>>

Lazy(S, lo, hi) == <<[k |-> "set", s |-> S, min |-> lo, max |-> hi, greedy |-> FALSE]>>

RepLa(S, las, la, lo, hi) == <<[k |-> "setla", s |-> S, las |-> las, la |-> la, min |-> lo, max |-> hi]>>

\* A literal matched as written, and under re.IGNORECASE.
Lit(str) == [i \in 1..Len(str) |-> [k |-> "set", s |-> {str[i]}, min |-> 1, max |-> 1, greedy |-> TRUE]]

LitCI(str) == [i \in 1..Len(str) |-> [k |-> "set", s |-> {ToLower(str[i]), ToUpper(str[i])}, min |-> 1, max |-> 1, greedy |-> TRUE]]

One(S) == Rep(S, 1, 1)

Alt(alts) == <<[k |-> "alt", ps |-> alts]>>

Opt(p) == Alt(<<p, <<>>>>)

WB == <<[k |-> "wb"]>>

Open == <<[k |-> "open"]>>

Close == <<[k |-> "close"]>>

\* The number of characters from position i on that lie in S, at most max.
RECURSIVE Run(_, _, _, _)
Run(S, s, i, max) ==
    IF max = 0 \/ i > Len(s) \/ s[i] \notin S THEN 0
    ELSE 1 + Run(S, s, i + 1, max - 1)

RECURSIVE RunLa(_, _, _, _)
RunLa(a, s, i, max) ==
    IF max = 0 \/ i > Len(s) THEN 0
    ELSE IF s[i] \in a.s \/ (s[i] \in a.las /\ i < Len(s) /\ s[i + 1] \in a.la)
         THEN 1 + RunLa(a, s, i + 1, max - 1)
         ELSE 0

IsWord(s, i) == i >= 1 /\ i <= Len(s) /\ s[i] \in WordChar

\* An atom that matches exactly one character, and the number of such atoms
\* in a row from atom k on: a literal, which the matcher compares at once.
IsOne(a) == a.k = "set" /\ a.min = 1 /\ a.max = 1

LitRun(pat, k) ==
    CHOOSE m \in 1..(Len(pat) - k + 1) :
        /\ \A j \in 0..(m - 1) : IsOne(pat[k + j])
        /\ k + m > Len(pat) \/ ~IsOne(pat[k + m])

RECURSIVE ReMatch(_, _, _, _, _)
RECURSIVE ReTry(_, _, _, _, _, _, _, _)
RECURSIVE ReAlt(_, _, _, _, _, _)
\* The counts c, c + step, ..., last of a repetition, tried in that order; the
\* range is halved so that the evaluation stays shallow.
ReTry(pat, k, s, i, g, c, last, step) ==
    IF c = last THEN ReMatch(pat, k + 1, s, i + c, g)
    ELSE LET half == ((last - c) * step) \div 2
             r    == ReTry(pat, k, s, i, g, c, c + half * step, step)
         IN  IF r.ok THEN r
             ELSE ReTry(pat, k, s, i, g, c + (half + 1) * step, last, step)

ReAlt(pat, k, s, i, g, n) ==
    IF n > Len(pat[k].ps) THEN NoMatch
    ELSE LET r == ReMatch(pat[k].ps[n] \o SubSeq(pat, k + 1, Len(pat)), 1, s, i, g)
         IN  IF r.ok THEN r ELSE ReAlt(pat, k, s, i, g, n + 1)

ReMatch(pat, k, s, i, g) ==
    IF k > Len(pat) THEN [ok |-> TRUE, b |-> 0, e |-> i, gs |-> g[1], ge |-> g[2]]
    ELSE LET a == pat[k] IN
      CASE IsOne(a) ->
             IF i > Len(s) \/ s[i] \notin a.s THEN NoMatch
             ELSE LET m == LitRun(pat, k)
                  IN  IF i + m - 1 <= Len(s) /\ \A j \in 1..(m - 1) : s[i + j] \in pat[k + j].s
                      THEN ReMatch(pat, k + m, s, i + m, g)
                      ELSE NoMatch
        [] a.k = "set" /\ ~IsOne(a) ->
             LET n == Run(a.s, s, i, a.max)
             IN  IF n < a.min THEN NoMatch
                 ELSE IF a.greedy THEN ReTry(pat, k, s, i, g, n, a.min, -1)
                 ELSE ReTry(pat, k, s, i, g, a.min, n, 1)
        [] a.k = "setla" ->
             LET n == RunLa(a, s, i, a.max)
             IN  IF n < a.min THEN NoMatch
                 ELSE ReTry(pat, k, s, i, g, n, a.min, -1)
        [] a.k = "alt" -> ReAlt(pat, k, s, i, g, 1)
        [] a.k = "wb" ->
             IF IsWord(s, i - 1) # IsWord(s, i)
             THEN ReMatch(pat, k + 1, s, i, g)
             ELSE NoMatch
        [] a.k = "open" -> ReMatch(pat, k + 1, s, i, <<i, g[2]>>)
        [] a.k = "close" -> ReMatch(pat, k + 1, s, i, <<g[1], i>>)

\* re.search: the match at the leftmost position where there is one.  The
\* positions lo..hi are tried in order, the range halved at each step.
RECURSIVE ReSearchFrom(_, _, _, _)
ReSearchFrom(pat, s, lo, hi) ==
    IF lo = hi
    THEN LET r == ReMatch(pat, 1, s, lo, <<0, 0>>)
         IN  IF r.ok THEN [r EXCEPT !.b = lo] ELSE NoMatch
    ELSE LET mid == (lo + hi) \div 2
             r   == ReSearchFrom(pat, s, lo, mid)
         IN  IF r.ok THEN r ELSE ReSearchFrom(pat, s, mid + 1, hi)

ReSearch(pat, s) == ReSearchFrom(pat, s, 1, Len(s) + 1)

\* group(1) and group(0) of a match.
Group1(s, r) == SubSeq(s, r.gs, r.ge - 1)

Group0(s, r) == SubSeq(s, r.b, r.e - 1)

(***************************************************************************)
(* extract_email                                                           *)
(***************************************************************************)
EmailLocal == Alnum \cup {".", "_", "%", "+", "-"}

EmailDomain == Alnum \cup {".", "-"}

\* [A-Z|a-z]: the class holds the bar as well as the letters.
EmailTld == Letter \cup {"|"}

Quote == {"\"", "'"}

\* ([A-Za-z0-9._%+-]+@[A-Za-z0-9.-]+\.[A-Z|a-z]{2,})
EmailRe ==
    Open \o Rep(EmailLocal, 1, Inf) \o Lit(<<"@">>) \o Rep(EmailDomain, 1, Inf)
         \o Lit(<<".">>) \o Rep(EmailTld, 2, Inf) \o Close

mailto_patterns ==
    << LitCI(Str.mailto) \o Rep(Space, 0, Inf) \o EmailRe,
       LitCI(Str.href) \o One(Quote) \o LitCI(Str.mailto) \o EmailRe \o One(Quote) >>

email_keyword_context ==
    Alt(<<LitCI(Str.email), LitCI(Str.e_mail), LitCI(Str.mail)>>)
      \o Rep(Space \cup {":"}, 0, Inf) \o Lazy(Dot, 0, Inf)
      \o Opt(LitCI(Str.href) \o One(Quote)) \o Opt(LitCI(Str.mailto)) \o EmailRe

email_pattern == WB \o EmailRe \o WB

extract_email(text) ==
    LET m1 == ReSearch(mailto_patterns[1], text)
        m2 == ReSearch(mailto_patterns[2], text)
        m3 == ReSearch(email_keyword_context, text)
        m4 == ReSearch(email_pattern, text)
    IN  IF m1.ok THEN Some(StrLower(Group1(text, m1)))
        ELSE IF m2.ok THEN Some(StrLower(Group1(text, m2)))
        ELSE IF m3.ok THEN Some(StrLower(Group1(text, m3)))
        ELSE IF m4.ok THEN Some(StrLower(Group0(text, m4)))
        ELSE None

(***************************************************************************)
(* extract_linkedin and extract_github                                     *)
(***************************************************************************)
\* https?://(?:www\.)?  under re.IGNORECASE
SchemeRe == LitCI(Str.http) \o Rep({"s", "S"}, 0, 1) \o Lit(Str.colon_slashes) \o Opt(LitCI(Str.www_dot))

\* [a-zA-Z0-9\-]+
LinkedinUserRe == Rep(Alnum \cup {"-"}, 1, Inf)

\* A user name without the hyphens: [a-zA-Z0-9]{1,39}
GithubUserRe_no_hyphen == One(Alnum) \o Rep(Alnum, 0, 38)

\* A slip in the pattern: the hyphen without its lookahead.
GithubUserRe_any_hyphen == One(Alnum) \o Rep(Alnum \cup {"-"}, 0, 38)

\* [a-zA-Z0-9](?:[a-zA-Z0-9]|-(?=[a-zA-Z0-9])){0,38}
GithubUserRe == One(Alnum) \o RepLa(Alnum, {"-"}, Alnum, 0, 38)

\* str.startswith
StartsWith(s, prefix) == Len(s) >= Len(prefix) /\ SubSeq(s, 1, Len(prefix)) = prefix

linkedin_href_patterns ==
    << LitCI(Str.href) \o One(Quote) \o Open \o SchemeRe \o LitCI(Str.linkedin_com_in)
         \o LinkedinUserRe \o Close \o One(Quote),
       LitCI(Str.href) \o One(Quote) \o Open \o LitCI(Str.linkedin_com_in)
         \o LinkedinUserRe \o Close \o One(Quote) >>

\* The keyword before the URL of any site.
linkedin_keyword_context_any_host ==
    Alt(<<LitCI(Str.linkedin), LitCI(Str.linked) \o Rep(Space, 0, Inf) \o LitCI(Str.in)>>)
      \o Rep(Space \cup {":"}, 0, Inf) \o Lazy(Dot, 0, Inf)
      \o Open \o SchemeRe \o LinkedinUserRe \o Close

linkedin_keyword_context ==
    Alt(<<LitCI(Str.linkedin), LitCI(Str.linked) \o Rep(Space, 0, Inf) \o LitCI(Str.in)>>)
      \o Rep(Space \cup {":"}, 0, Inf) \o Lazy(Dot, 0, Inf)
      \o Opt(LitCI(Str.href) \o One(Quote))
      \o Open \o SchemeRe \o LitCI(Str.linkedin_com_in) \o LinkedinUserRe \o Close

linkedin_patterns ==
    << SchemeRe \o LitCI(Str.linkedin_com_in) \o Open \o LinkedinUserRe \o Close,
       LitCI(Str.linkedin_com_in) \o Open \o LinkedinUserRe \o Close,
       LitCI(Str.www_dot) \o LitCI(Str.linkedin_com_in) \o Open \o LinkedinUserRe \o Close,
       LitCI(Str.linkedin_com_profile) \o Open \o LinkedinUserRe \o Close >>

linkedin_url_match == SchemeRe \o LitCI(Str.linkedin_com_in) \o LinkedinUserRe

\* The first pattern of a list that matches, with its match.
RECURSIVE FirstMatch(_, _, _)
FirstMatch(pats, n, text) ==
    IF n > Len(pats) THEN NoMatch
    ELSE LET r == ReSearch(pats[n], text)
         IN  IF r.ok THEN r ELSE FirstMatch(pats, n + 1, text)

extract_linkedin(text) ==
    LET h   == FirstMatch(linkedin_href_patterns, 1, text)
        url == Group1(text, h)
        kw  == ReSearch(linkedin_keyword_context, text)
        p   == FirstMatch(linkedin_patterns, 1, text)
        f   == ReSearch(linkedin_url_match, text)
    IN  IF h.ok
        THEN IF ~StartsWith(url, Str.http) THEN Some(Str.https_www \o url) ELSE Some(url)
        ELSE IF kw.ok THEN Some(Group1(text, kw))
        ELSE IF p.ok THEN Some(Str.https_www_linkedin_com_in \o Group1(text, p))
        ELSE IF ReSearch(LitCI(Str.linkedin_com_in), text).ok /\ f.ok
        THEN Some(Group0(text, f))
        ELSE None

github_href_patterns ==
    << LitCI(Str.href) \o One(Quote) \o Open \o SchemeRe \o LitCI(Str.github_com)
         \o GithubUserRe \o Close \o One(Quote),
       LitCI(Str.href) \o One(Quote) \o Open \o LitCI(Str.github_com)
         \o GithubUserRe \o Close \o One(Quote) >>

github_keyword_context ==
    Alt(<<LitCI(Str.github), LitCI(Str.git) \o Rep(Space, 0, Inf) \o LitCI(Str.hub)>>)
      \o Rep(Space \cup {":"}, 0, Inf) \o Lazy(Dot, 0, Inf)
      \o Opt(LitCI(Str.href) \o One(Quote))
      \o Open \o SchemeRe \o LitCI(Str.github_com) \o GithubUserRe \o Close

github_patterns ==
    << SchemeRe \o LitCI(Str.github_com) \o Open \o GithubUserRe \o Close,
       LitCI(Str.github_com) \o Open \o GithubUserRe \o Close,
       LitCI(Str.www_dot) \o LitCI(Str.github_com) \o Open \o GithubUserRe \o Close >>

github_url_match == SchemeRe \o LitCI(Str.github_com) \o GithubUserRe

extract_github(text) ==
    LET h   == FirstMatch(github_href_patterns, 1, text)
        url == Group1(text, h)
        kw  == ReSearch(github_keyword_context, text)
        p   == FirstMatch(github_patterns, 1, text)
        f   == ReSearch(github_url_match, text)
    IN  IF h.ok
        THEN IF ~StartsWith(url, Str.http) THEN Some(Str.https \o url) ELSE Some(url)
        ELSE IF kw.ok THEN Some(Group1(text, kw))
        ELSE IF p.ok THEN Some(Str.https_github_com \o Group1(text, p))
        ELSE IF ReSearch(LitCI(Str.github_com), text).ok /\ f.ok
        THEN Some(Group0(text, f))
        ELSE None

(***************************************************************************)
(* The phonenumbers library, as normalize_phone calls it: parse(text,      *)
(* None), is_valid_number and format_number(..., E164).  A parsed number   *)
(* is its country calling code and its national number, both digit         *)
(* strings.  Extensions ("x12", "ext 12", "#"), "tel:" prefixes and a      *)
(* second number after "/x" are left out: no input of the model holds      *)
(* their markers.  What the library's metadata says of a number the model  *)
(* is not sure of is the choice of the variable lib.                       *)
(***************************************************************************)
ParseFail == [ok |-> FALSE, cc |-> <<>>, nsn |-> <<>>]

\* The characters of s[lo..hi] that are in S (keep) or not in S (~keep), in
\* order; the range is halved so that the evaluation stays shallow.
RECURSIVE FilterChars(_, _, _, _, _)
FilterChars(s, S, keep, lo, hi) ==
    IF lo > hi THEN <<>>
    ELSE IF lo = hi THEN (IF (s[lo] \in S) = keep THEN <<s[lo]>> ELSE <<>>)
    ELSE LET mid == (lo + hi) \div 2
         IN  FilterChars(s, S, keep, lo, mid) \o FilterChars(s, S, keep, mid + 1, hi)

SelectChars(s, S) == FilterChars(s, S, TRUE, 1, Len(s))

RemoveChars(s, S) == FilterChars(s, S, FALSE, 1, Len(s))

\* _extract_possible_number: from the first digit or plus sign on, without
\* the trailing characters that are neither letters nor digits.
PossibleNumber(s) ==
    LET starts == {i \in 1..Len(s) : s[i] \in Digit \cup {"+"}}
        ends   == {i \in 1..Len(s) : s[i] \in Alnum}
    IN  IF starts = {} THEN <<>>
        ELSE LET b == CHOOSE i \in starts : \A j \in starts : i <= j
                 e == CHOOSE i \in ends : \A j \in ends : j <= i
             IN  SubSeq(s, b, e)

\* The punctuation a phone number may hold.
PhonePunct == {"-", "x", " ", "(", ")", ".", "/"}

\* _is_viable_phone_number: two digits, or plus signs, then at least three
\* digits with only punctuation between them, then digits, letters and
\* punctuation.
IsViable(p) ==
    LET np   == Run({"+"}, p, 1, Inf)
        body == SubSeq(p, np + 1, Len(p))
        digs == {i \in 1..Len(body) : body[i] \in Digit}
        third == CHOOSE i \in digs : Cardinality({j \in digs : j <= i}) = 3
    IN  \/ Len(p) = 2 /\ p[1] \in Digit /\ p[2] \in Digit
        \/ /\ Cardinality(digs) >= 3
           /\ \A i \in 1..Len(body) : body[i] \in PhonePunct \cup Alnum
           /\ \A i \in 1..third : body[i] \in PhonePunct \cup Digit

\* The keypad digit of a letter (_ALPHA_PHONE_MAPPINGS).
KeypadSeq == <<"2", "2", "2", "3", "3", "3", "4", "4", "4", "5", "5", "5", "6", "6", "6", "7", "7", "7", "7", "8", "8", "8", "9", "9", "9", "9">>

Keypad(c) == IF c \in Letter THEN KeypadSeq[CHOOSE i \in 1..26 : LowerSeq[i] = ToLower(c)] ELSE c

\* _normalize: a number with three letters or more has its letters turned
\* into keypad digits; everything that is not a digit is then dropped.
NormalizeNumber(p) ==
    LET kept == SelectChars(p, Alnum)
    IN  IF Cardinality({i \in 1..Len(p) : p[i] \in Letter}) >= 3
        THEN [i \in 1..Len(kept) |-> Keypad(kept[i])]
        ELSE SelectChars(p, Digit)

\* The calling codes of one and two digits; a number that starts with none
\* of them has a calling code of three digits.
TwoDigitCodes ==
    { <<"2", "0">>, <<"2", "7">>, <<"3", "0">>, <<"3", "1">>, <<"3", "2">>, <<"3", "3">>,
      <<"3", "4">>, <<"3", "6">>, <<"3", "9">>, <<"4", "0">>, <<"4", "1">>, <<"4", "3">>,
      <<"4", "4">>, <<"4", "5">>, <<"4", "6">>, <<"4", "7">>, <<"4", "8">>, <<"4", "9">>,
      <<"5", "1">>, <<"5", "2">>, <<"5", "3">>, <<"5", "4">>, <<"5", "5">>, <<"5", "6">>,
      <<"5", "7">>, <<"5", "8">>, <<"6", "0">>, <<"6", "1">>, <<"6", "2">>, <<"6", "3">>,
      <<"6", "4">>, <<"6", "5">>, <<"6", "6">>, <<"8", "1">>, <<"8", "2">>, <<"8", "4">>,
      <<"8", "6">>, <<"9", "0">>, <<"9", "1">>, <<"9", "2">>, <<"9", "3">>, <<"9", "4">>,
      <<"9", "5">>, <<"9", "8">>}

CallingCodeLen(d) ==
    IF d[1] \in {"1", "7"} THEN 1
    ELSE IF SubSeq(d, 1, 2) \in TwoDigitCodes THEN 2
    ELSE 3

\* The general pattern of India's numbers: (?:000800|[2-9]\d\d)\d{7}|1\d{7,12}
GeneralIN(n) ==
    \/ Len(n) = 13 /\ StartsWith(n, Str.n000800)
    \/ Len(n) = 10 /\ n[1] \in {"2", "3", "4", "5", "6", "7", "8", "9"}
    \/ Len(n) \in 8..13 /\ n[1] = "1"

\* _maybe_strip_national_prefix_carrier_code for India, whose national
\* prefix is 0: the prefix goes when what is left has a possible length,
\* unless the number matched the general pattern and what is left does not.
StripNationalPrefix(cc, n) ==
    IF cc = Str.n91 /\ n # <<>> /\ n[1] = "0"
       /\ ~(GeneralIN(n) /\ ~GeneralIN(Tail(n)))
       /\ Len(n) - 1 \in 8..13
    THEN Tail(n)
    ELSE n

\* phonenumbers.parse(text, None); the failure is NumberParseException.
phonenumbers_parse(text) ==
    LET p  == PossibleNumber(text)
        d  == NormalizeNumber(p)
        n  == CallingCodeLen(d)
        cc == SubSeq(d, 1, n)
        nsn == StripNationalPrefix(cc, SubSeq(d, n + 1, Len(d)))
    IN  IF Len(text) > 250 \/ ~IsViable(p) THEN ParseFail
        ELSE IF p[1] # "+" THEN ParseFail
        ELSE IF Len(d) <= 2 \/ d[1] = "0" THEN ParseFail
        ELSE IF Len(d) - n < 2 \/ Len(nsn) > 17 THEN ParseFail
        ELSE [ok |-> TRUE, cc |-> cc, nsn |-> nsn]

\* Numbers the metadata is known to hold: the mobile number of the
\* repository's tests and the toll-free number 1-800-FLOWERS.
KnownValid(num) ==
    \/ num.cc = Str.n91 /\ num.nsn = Str.n9876543210
    \/ num.cc = <<"1">> /\ num.nsn = Str.n8003569377

\* Numbers no metadata holds: an Indian number outside the possible lengths
\* or with a leading zero that is not 000800, a North American number that
\* has not ten digits or whose area code starts with 0 or 1, a number of
\* more than fifteen digits.
KnownInvalid(num) ==
    \/ num.cc = Str.n91 /\ (Len(num.nsn) \notin 8..13 \/ (num.nsn[1] = "0" /\ ~StartsWith(num.nsn, Str.n000800)))
    \/ num.cc = <<"1">> /\ (Len(num.nsn) # 10 \/ num.nsn[1] \in {"0", "1"})
    \/ Len(num.cc) + Len(num.nsn) > 15

\* phonenumbers.is_valid_number; valid is the set of numbers, as digit
\* strings, that the metadata holds among those the model is not sure of.
is_valid_number(num, valid) ==
    \/ KnownValid(num)
    \/ ~KnownInvalid(num) /\ (num.cc \o num.nsn) \in valid

\* phonenumbers.format_number(parsed, PhoneNumberFormat.E164)
format_number(num) == <<"+">> \o num.cc \o num.nsn

(***************************************************************************)
(* normalize_phone                                                         *)
(***************************************************************************)
\* re.findall(r'\d{7,15}', cleaned): the matches, left to right.
RECURSIVE FindDigitRuns(_, _)
FindDigitRuns(s, i) ==
    IF i > Len(s) THEN <<>>
    ELSE LET n == Run(Digit, s, i, 15)
         IN  IF n >= 7 THEN <<SubSeq(s, i, i + n - 1)>> \o FindDigitRuns(s, i + n)
             ELSE FindDigitRuns(s, i + 1)

\* A slip in the class: the parentheses left out.
Separators_no_parentheses == Space \cup {"-", "."}

\* [\s\-\(\)\.]
Separators == Space \cup {"-", "(", ")", "."}

\* A slip in the prefix: the plus sign without India's calling code.
PhoneCandidate_plus_only(match) ==
    IF Len(match) >= 10 THEN <<"+">> \o match ELSE match

PhoneCandidate(match) ==
    IF Len(match) = 10 THEN <<"+", "9", "1">> \o match
    ELSE IF Len(match) >= 10 THEN <<"+">> \o match
    ELSE match

RECURSIVE TryCandidates(_, _, _)
TryCandidates(matches, i, valid) ==
    IF i > Len(matches) THEN None
    ELSE LET parsed == phonenumbers_parse(PhoneCandidate(matches[i]))
         IN  IF parsed.ok /\ is_valid_number(parsed, valid)
             THEN Some(format_number(parsed))
             ELSE TryCandidates(matches, i + 1, valid)

\* A slip in the direct path: the parsed number returned without asking
\* is_valid_number.
normalize_phone_unchecked(text, valid) ==
    LET parsed  == phonenumbers_parse(text)
        cleaned == RemoveChars(text, Separators)
    IN  IF parsed.ok
        THEN Some(format_number(parsed))
        ELSE TryCandidates(FindDigitRuns(cleaned, 1), 1, valid)

\* A slip in the direct path: the text as a whole is never parsed.
normalize_phone_scan_only(text, valid) ==
    TryCandidates(FindDigitRuns(RemoveChars(text, Separators), 1), 1, valid)

\* A slip in the scan: only the first digit run is tried.
normalize_phone_first_run_only(text, valid) ==
    LET parsed  == phonenumbers_parse(text)
        matches == FindDigitRuns(RemoveChars(text, Separators), 1)
    IN  IF parsed.ok /\ is_valid_number(parsed, valid)
        THEN Some(format_number(parsed))
        ELSE TryCandidates(IF matches = <<>> THEN <<>> ELSE <<matches[1]>>, 1, valid)

normalize_phone(text, valid) ==
    LET parsed  == phonenumbers_parse(text)
        cleaned == RemoveChars(text, Separators)
    IN  IF parsed.ok /\ is_valid_number(parsed, valid)
        THEN Some(format_number(parsed))
        ELSE TryCandidates(FindDigitRuns(cleaned, 1), 1, valid)

(***************************************************************************)
(* guess_name                                                              *)
(***************************************************************************)
\* text.split('\n')
RECURSIVE SplitLinesFrom(_, _, _)
SplitLinesFrom(s, i, start) ==
    IF i > Len(s) THEN <<SubSeq(s, start, Len(s))>>
    ELSE IF s[i] = "\n" THEN <<SubSeq(s, start, i - 1)>> \o SplitLinesFrom(s, i + 1, i + 1)
    ELSE SplitLinesFrom(s, i + 1, start)

SplitLines(s) == SplitLinesFrom(s, 1, 1)

\* str.strip()
Strip(s) ==
    LET keep == {i \in 1..Len(s) : s[i] \notin Space}
    IN  IF keep = {} THEN <<>>
        ELSE SubSeq(s, CHOOSE i \in keep : \A j \in keep : i <= j,
                       CHOOSE i \in keep : \A j \in keep : j <= i)

\* str.split(): the maximal runs of characters that are not white space.
RECURSIVE SplitWordsFrom(_, _)
SplitWordsFrom(s, i) ==
    IF i > Len(s) THEN <<>>
    ELSE IF s[i] \in Space THEN SplitWordsFrom(s, i + 1)
    ELSE LET n == Run(AllChars \ Space, s, i, Inf)
         IN  <<SubSeq(s, i, i + n - 1)>> \o SplitWordsFrom(s, i + n)

SplitWords(s) == SplitWordsFrom(s, 1)

\* sub in s
Contains(s, sub) == \E i \in 1..(Len(s) - Len(sub) + 1) : SubSeq(s, i, i + Len(sub) - 1) = sub

Take(s, n) == SubSeq(s, 1, IF Len(s) < n THEN Len(s) ELSE n)

NameScanLines == 30

ContactScanLines == 50

NameMaxLen == 50

email_phone_keywords ==
    { <<"e", "m", "a", "i", "l">>, <<"p", "h", "o", "n", "e">>,
      <<"c", "o", "n", "t", "a", "c", "t">>, <<"m", "o", "b", "i", "l", "e">>,
      <<"t", "e", "l">> }

\* The lines above a line of the first ContactScanLines that holds a keyword.
RECURSIVE ContactAdjacent(_, _)
ContactAdjacent(lines, i) ==
    IF i > Len(lines) \/ i > ContactScanLines THEN <<>>
    ELSE IF i > 1 /\ \E kw \in email_phone_keywords : Contains(StrLower(lines[i]), kw)
         THEN <<lines[i - 1]>> \o ContactAdjacent(lines, i + 1)
         ELSE ContactAdjacent(lines, i + 1)

\* The filter with name_pattern, which the source compiles and does not use.
NameLineOk_name_pattern(line) ==
    LET words == SplitWords(line)
    IN  /\ line # <<>>
        /\ ~("@" \in {line[i] : i \in 1..Len(line)})
        /\ Len(line) <= NameMaxLen
        /\ Len(words) >= 2 /\ Len(words) <= 4
        /\ \A i \in 1..Len(words) :
               /\ Len(words[i]) >= 2
               /\ words[i][1] \in Upper
               /\ \A j \in 2..Len(words[i]) : words[i][j] \in Lower

\* Whether a stripped line is returned as the name.
NameLineOk(line) ==
    LET words == SplitWords(line)
    IN  /\ line # <<>>
        /\ ~("@" \in {line[i] : i \in 1..Len(line)})
        /\ ~(line[1] \in Digit \/ (Len(line) >= 2 /\ line[1] = "+" /\ line[2] \in Digit))
        /\ Len(line) <= NameMaxLen
        /\ Len(words) >= 2 /\ Len(words) <= 4
        /\ \A i \in 1..Len(words) : words[i][1] \in Upper

RECURSIVE FirstNameLine(_, _)
FirstNameLine(cands, i) ==
    IF i > Len(cands) THEN None
    ELSE IF NameLineOk(Strip(cands[i])) THEN Some(Strip(cands[i]))
    ELSE FirstNameLine(cands, i + 1)

\* A slip in the pool: every line of the text is a candidate.
guess_name_all_lines(text) ==
    LET lines == SplitLines(text)
    IN  FirstNameLine(lines \o ContactAdjacent(lines, 1), 1)

guess_name(text) ==
    LET lines == SplitLines(text)
    IN  FirstNameLine(Take(lines, NameScanLines) \o ContactAdjacent(lines, 1), 1)

(***************************************************************************)
(* binary64 arithmetic.  A double of magnitude below 4.0 whose unit in the  *)
(* last place is at least 2^-57 is held as its sign and the integer        *)
(* N = magnitude * 2^57, in two limbs: N = hi * 2^29 + lo.  FAdd and FSub  *)
(* are the exact result rounded to 53 significant bits, ties to even, as   *)
(* the + and - of Python floats on non-negative operands.                  *)
(***************************************************************************)
Limb == 2^29

F(hi, lo) == [neg |-> FALSE, hi |-> hi, lo |-> lo]

RECURSIVE BitLen(_)
BitLen(n) == IF n = 0 THEN 0 ELSE 1 + BitLen(n \div 2)

FRound(hi, lo) ==
    LET d    == IF BitLen(hi) > 24 THEN BitLen(hi) - 24 ELSE 0
        r    == lo % (2^d)
        half == IF d = 0 THEN 0 ELSE 2^(d - 1)
        base == lo - r
        up   == d > 0 /\ (r > half \/ (r = half /\ (lo \div (2^d)) % 2 = 1))
    IN  IF ~up THEN F(hi, base)
        ELSE IF base + 2^d = Limb THEN F(hi + 1, 0)
        ELSE F(hi, base + 2^d)

MagLessEq(a, b) == a.hi < b.hi \/ (a.hi = b.hi /\ a.lo <= b.lo)

FAdd(a, b) ==
    LET lo == a.lo + b.lo
    IN  FRound(a.hi + b.hi + (lo \div Limb), lo % Limb)

MagSub(a, b) ==
    IF a.lo >= b.lo THEN FRound(a.hi - b.hi, a.lo - b.lo)
    ELSE FRound(a.hi - b.hi - 1, a.lo + Limb - b.lo)

FSub(a, b) ==
    IF MagLessEq(b, a) THEN MagSub(a, b)
    ELSE [MagSub(b, a) EXCEPT !.neg = TRUE]

FLessEq(a, b) ==
    IF a.neg /\ ~b.neg THEN TRUE
    ELSE IF ~a.neg /\ b.neg THEN a.hi = 0 /\ a.lo = 0 /\ b.hi = 0 /\ b.lo = 0
    ELSE IF a.neg THEN MagLessEq(b, a)
    ELSE MagLessEq(a, b)

\* min(a, b)
FMin(a, b) == IF FLessEq(b, a) /\ ~FLessEq(a, b) THEN b ELSE a

\* The doubles of the decimal literals of the source.
F0_0 == F(0, 0)

F0_05 == F(13421772, 429496730)

F0_1 == F(26843545, 322122548)

F0_15 == F(40265318, 214748364)

F0_25 == F(67108864, 0)

F0_4 == F(107374182, 214748368)

F1_0 == F(268435456, 0)

(***************************************************************************)
(* score_confidence                                                        *)
(***************************************************************************)
\* A slip in the weights: linkedin and github exchanged.
score_confidence_swapped(name, email, phone, linkedin, github, ocr_used) ==
    LET s1 == IF Truthy(email) THEN FAdd(F0_0, F0_4) ELSE F0_0
        s2 == IF Truthy(phone) THEN FAdd(s1, F0_25) ELSE s1
        s3 == IF Truthy(name) THEN FAdd(s2, F0_15) ELSE s2
        s4 == IF Truthy(linkedin) THEN FAdd(s3, F0_05) ELSE s3
        s5 == IF Truthy(github) THEN FAdd(s4, F0_1) ELSE s4
        s6 == IF ~ocr_used THEN FAdd(s5, F0_05) ELSE s5
    IN  FMin(s6, F1_0)

\* A slip in the bonus: 0.05 taken off when OCR was used, instead of added
\* when it was not.
score_confidence_penalty(name, email, phone, linkedin, github, ocr_used) ==
    LET s1 == IF Truthy(email) THEN FAdd(F0_0, F0_4) ELSE F0_0
        s2 == IF Truthy(phone) THEN FAdd(s1, F0_25) ELSE s1
        s3 == IF Truthy(name) THEN FAdd(s2, F0_15) ELSE s2
        s4 == IF Truthy(linkedin) THEN FAdd(s3, F0_1) ELSE s3
        s5 == IF Truthy(github) THEN FAdd(s4, F0_05) ELSE s4
        s6 == IF ocr_used THEN FSub(s5, F0_05) ELSE s5
    IN  FMin(s6, F1_0)

\* A slip in the bonus: github counted only when OCR was not used.
score_confidence_ocr_skips_github(name, email, phone, linkedin, github, ocr_used) ==
    LET s1 == IF Truthy(email) THEN FAdd(F0_0, F0_4) ELSE F0_0
        s2 == IF Truthy(phone) THEN FAdd(s1, F0_25) ELSE s1
        s3 == IF Truthy(name) THEN FAdd(s2, F0_15) ELSE s2
        s4 == IF Truthy(linkedin) THEN FAdd(s3, F0_1) ELSE s3
        s5 == IF Truthy(github) /\ ~ocr_used THEN FAdd(s4, F0_05) ELSE s4
        s6 == IF ~ocr_used THEN FAdd(s5, F0_05) ELSE s5
    IN  FMin(s6, F1_0)

\* A slip in the bonus: 0.05 added whether OCR was used or not.
score_confidence_bonus_always(name, email, phone, linkedin, github, ocr_used) ==
    LET s1 == IF Truthy(email) THEN FAdd(F0_0, F0_4) ELSE F0_0
        s2 == IF Truthy(phone) THEN FAdd(s1, F0_25) ELSE s1
        s3 == IF Truthy(name) THEN FAdd(s2, F0_15) ELSE s2
        s4 == IF Truthy(linkedin) THEN FAdd(s3, F0_1) ELSE s3
        s5 == IF Truthy(github) THEN FAdd(s4, F0_05) ELSE s4
        s6 == FAdd(s5, F0_05)
    IN  FMin(s6, F1_0)

score_confidence(name, email, phone, linkedin, github, ocr_used) ==
    LET s1 == IF Truthy(email) THEN FAdd(F0_0, F0_4) ELSE F0_0
        s2 == IF Truthy(phone) THEN FAdd(s1, F0_25) ELSE s1
        s3 == IF Truthy(name) THEN FAdd(s2, F0_15) ELSE s2
        s4 == IF Truthy(linkedin) THEN FAdd(s3, F0_1) ELSE s3
        s5 == IF Truthy(github) THEN FAdd(s4, F0_05) ELSE s4
        s6 == IF ~ocr_used THEN FAdd(s5, F0_05) ELSE s5
    IN  FMin(s6, F1_0)

(***************************************************************************)
(* Decoding.  The bytes of a file are modelled by what the libraries make  *)
(* of them: data.miner is the outcome of pdfminer's extract_text,          *)
(* data.links the URIs of the PDF's link annotations, data.ocr the outcome *)
(* of rendering the pages and running tesseract on them, data.docx the     *)
(* outcome of python-docx.  An outcome is a text or a raised exception     *)
(* with its message.                                                       *)
(***************************************************************************)
Returned(text) == [ok |-> TRUE, text |-> text, err |-> <<>>]

Raised(msg) == [ok |-> FALSE, text |-> <<>>, err |-> msg]

\* sep.join(parts)
RECURSIVE Join(_, _)
Join(sep, parts) ==
    IF parts = <<>> THEN <<>>
    ELSE IF Len(parts) = 1 THEN parts[1]
    ELSE parts[1] \o sep \o Join(sep, Tail(parts))

\* str.endswith
EndsWith(s, suffix) ==
    Len(s) >= Len(suffix) /\ SubSeq(s, Len(s) - Len(suffix) + 1, Len(s)) = suffix

\* _extract_pdf_hyperlinks swallows every exception and returns what it has.
extract_pdf_hyperlinks(data) == data.links

ocr_pdf(data) == data.ocr

docx_text(data) == data.docx

OcrMinChars == 50

\* Returns the outcome of the text and ocr_used.
pdf_text_with_ocr_fallback(data) ==
    LET hyperlinks == extract_pdf_hyperlinks(data)
        text == IF hyperlinks # <<>>
                THEN data.miner.text \o <<"\n">> \o Join(<<"\n">>, hyperlinks)
                ELSE data.miner.text
    IN  IF data.miner.ok /\ Len(Strip(text)) >= OcrMinChars
        THEN [out |-> Returned(text), ocr_used |-> FALSE]
        ELSE [out |-> ocr_pdf(data), ocr_used |-> TRUE]

extract_fields(text, valid) ==
    [email |-> extract_email(text), phone |-> normalize_phone(text, valid),
     linkedin |-> extract_linkedin(text), github |-> extract_github(text)]

(***************************************************************************)
(* parse_resume_bytes.  fault names the call of the try block in which the *)
(* interpreter raises an exception of its own (MemoryError and the like),  *)
(* "none" when it raises nowhere.  The result holds, next to the tuple     *)
(* the function returns, the calls it made, in order.                      *)
(***************************************************************************)
NoFields == [name |-> None, email |-> None, phone |-> None, linkedin |-> None, github |-> None]

\* A slip in the dispatch: the extension looked for anywhere in the name.
file_type_anywhere(filename) ==
    IF Contains(StrLower(filename), Str.dot_pdf) THEN "pdf"
    ELSE IF Contains(StrLower(filename), Str.dot_docx) THEN "docx"
    ELSE "unsupported"

\* The branch the if/elif/else on the lower-cased file name takes.
file_type(filename) ==
    IF EndsWith(StrLower(filename), Str.dot_pdf) THEN "pdf"
    ELSE IF EndsWith(StrLower(filename), Str.dot_docx) THEN "docx"
    ELSE "unsupported"

\* A slip in the handler: the fields assigned before the exception returned.
except_branch_locals(e, locals, calls) ==
    [raised |-> FALSE,
     parsed |-> [name |-> locals.name, email |-> locals.email, phone |-> locals.phone,
                 linkedin |-> locals.linkedin, github |-> locals.github,
                 confidence |-> F0_0],
     errors |-> <<Str.Parse_error \o e>>, ocr_used |-> FALSE, calls |-> calls]

\* except Exception as e: the locals are in scope, the result is written out
\* in literals.
except_branch(e, locals, calls) ==
    [raised |-> FALSE,
     parsed |-> [name |-> None, email |-> None, phone |-> None,
                 linkedin |-> None, github |-> None, confidence |-> F0_0],
     errors |-> <<Str.Parse_error \o e>>, ocr_used |-> FALSE, calls |-> calls]

\* A slip in the scoring: a text in which nothing is found reported as a
\* parse error.
parse_scored_no_match_error(decoder, fields, name, ocr_used, fault) ==
    IF fault = "guess_name"
    THEN except_branch(Str.out_of_memory, [fields EXCEPT !.name = None],
                       <<decoder, "extract_fields", "guess_name">>)
    ELSE IF fault = "score_confidence"
    THEN except_branch(Str.out_of_memory, [fields EXCEPT !.name = name],
                       <<decoder, "extract_fields", "guess_name", "score_confidence">>)
    ELSE IF name = None /\ fields.email = None /\ fields.phone = None
            /\ fields.linkedin = None /\ fields.github = None
    THEN except_branch(<<"n", "o", " ", "f", "i", "e", "l", "d", "s", " ", "f", "o", "u", "n", "d">>, [fields EXCEPT !.name = name],
                       <<decoder, "extract_fields", "guess_name">>)
    ELSE [raised |-> FALSE,
          parsed |-> [name |-> name, email |-> fields.email, phone |-> fields.phone,
                      linkedin |-> fields.linkedin, github |-> fields.github,
                      confidence |-> score_confidence(name, fields.email, fields.phone,
                                                      fields.linkedin, fields.github,
                                                      ocr_used)],
          errors |-> <<>>, ocr_used |-> ocr_used,
          calls |-> <<decoder, "extract_fields", "guess_name", "score_confidence">>]

\* The try block from the scoring on, with the fields and the name found.
parse_scored(decoder, fields, name, ocr_used, fault) ==
    IF fault = "guess_name"
    THEN except_branch(Str.out_of_memory, [fields EXCEPT !.name = None],
                       <<decoder, "extract_fields", "guess_name">>)
    ELSE IF fault = "score_confidence"
    THEN except_branch(Str.out_of_memory, [fields EXCEPT !.name = name],
                       <<decoder, "extract_fields", "guess_name", "score_confidence">>)
    ELSE [raised |-> FALSE,
          parsed |-> [name |-> name, email |-> fields.email, phone |-> fields.phone,
                      linkedin |-> fields.linkedin, github |-> fields.github,
                      confidence |-> score_confidence(name, fields.email, fields.phone,
                                                      fields.linkedin, fields.github,
                                                      ocr_used)],
          errors |-> <<>>, ocr_used |-> ocr_used,
          calls |-> <<decoder, "extract_fields", "guess_name", "score_confidence">>]

\* The try block from the extraction on, with the outcome of the decoder.
parse_decoded(decoder, decoded, ocr_used, fault, valid) ==
    IF ~decoded.ok
    THEN except_branch(decoded.err, NoFields, <<decoder>>)
    ELSE IF fault = "extract_fields"
    THEN except_branch(Str.out_of_memory, NoFields, <<decoder, "extract_fields">>)
    ELSE parse_scored(decoder, [name |-> None] @@ extract_fields(decoded.text, valid),
                      guess_name(decoded.text), ocr_used, fault)

\* pdf_text_with_ocr_fallback returns a pair, or raises.
parse_pdf(pdf, fault, valid) ==
    parse_decoded("pdf_text_with_ocr_fallback", pdf.out, pdf.ocr_used, fault, valid)

parse_resume_bytes(filename, data, fault, valid) ==
    IF file_type(filename) = "pdf"
    THEN parse_pdf(pdf_text_with_ocr_fallback(data), fault, valid)
    ELSE IF file_type(filename) = "docx"
    THEN parse_decoded("docx_text", docx_text(data), FALSE, fault, valid)
    ELSE [raised |-> FALSE,
          parsed |-> [name |-> None, email |-> None, phone |-> None,
                      linkedin |-> None, github |-> None, confidence |-> F0_0],
          errors |-> <<Str.Unsupported_file_type \o filename>>,
          ocr_used |-> FALSE, calls |-> <<>>]

(***************************************************************************)
(* The calls of the parsing specification.                                 *)
(***************************************************************************)
FieldValues == {None, Some(<<>>), Some(<<"x">>)}

ScoreCalls ==
    [fn : {"score_confidence"}, name : FieldValues, email : FieldValues,
     phone : FieldValues, linkedin : FieldValues, github : FieldValues,
     ocr_used : BOOLEAN]

\* The lines a resume of the model is made of: a name, an e-mail address, a
\* phone number, a LinkedIn profile and a GitHub profile.
ResumeLines ==
    << <<"J", "a", "n", "e", " ", "S", "m", "i", "t", "h">>,
       <<"E", "m", "a", "i", "l", ":", " ", "j", "a", "n", "e", "@", "e", "x", "a", "m", "p", "l", "e", ".", "c", "o", "m">>,
       <<"P", "h", "o", "n", "e", ":", " ", "9", "8", "7", "6", "5", "4", "3", "2", "1", "0">>,
       <<"l", "i", "n", "k", "e", "d", "i", "n", ".", "c", "o", "m", "/", "i", "n", "/", "j", "a", "n", "e", "-", "s", "m", "i", "t", "h">>,
       <<"g", "i", "t", "h", "u", "b", ".", "c", "o", "m", "/", "j", "a", "n", "e", "s", "m", "i", "t", "h">> >>

\* The resume that holds the lines of S, in order.
RECURSIVE LinesOf(_, _)
LinesOf(S, i) ==
    IF i > Len(ResumeLines) THEN <<>>
    ELSE IF i \in S THEN <<ResumeLines[i]>> \o LinesOf(S, i + 1)
    ELSE LinesOf(S, i + 1)

ResumeText(S) == Join(<<"\n">>, LinesOf(S, 1))

ResumeTexts == {ResumeText(S) : S \in SUBSET (1..Len(ResumeLines))}

\* A text of 62 characters that holds no name, address, number or profile.
PlainText ==
    <<"r", "e", "f", "e", "r", "e", "n", "c", "e", "s", " ", "a", "r", "e", " ", "a", "v", "a", "i", "l", "a", "b", "l", "e", " ", "o", "n", " ", "r", "e", "q", "u", "e", "s", "t", "\n", "h", "o", "b", "b", "i", "e", "s", ":", " ", "c", "h", "e", "s", "s", " ", "a", "n", "d", " ", "h", "i", "k", "i", "n", "g">>

TextOutcomes ==
    {Returned(t) : t \in ResumeTexts \cup {PlainText}} \cup {Raised(Str.bad_file)}

OcrOutcomes == {Returned(ResumeText(1..Len(ResumeLines))), Returned(<<>>), Raised(Str.bad_file)}

\* A file is a document of one text, which pdfminer and python-docx either
\* find or fail on, with or without a link annotation.
Files ==
    {[miner |-> t, links |-> l, ocr |-> o, docx |-> t] :
        t \in TextOutcomes, l \in {<<>>, <<Str.linkedin_link>>}, o \in OcrOutcomes}

Filenames ==
    { <<"c", "v", ".", "p", "d", "f">>, <<"C", "V", ".", "P", "D", "F">>,
      <<"c", "v", ".", "d", "o", "c", "x">>, <<"c", "v", ".", "d", "o", "c">>,
      <<"c", "v", ".", "t", "x", "t">>, <<"p", "d", "f">>,
      <<"c", "v", ".", "p", "d", "f", ".", "b", "a", "k">> }

Faults == {"none", "extract_fields", "guess_name", "score_confidence"}

ParseCalls ==
    [fn : {"parse_resume_bytes"}, filename : Filenames, data : Files, fault : Faults]

NoRet == [kind |-> "none"]

ScoreConfidence ==
    /\ pc = "call"
    /\ call.fn = "score_confidence"
    /\ ret' = [kind |-> "float",
               val |-> score_confidence(call.name, call.email, call.phone,
                                        call.linkedin, call.github, call.ocr_used)]
    /\ pc' = "done"
    /\ UNCHANGED <<call, lib, batch>>

ParseResumeBytes ==
    /\ pc = "call"
    /\ call.fn = "parse_resume_bytes"
    /\ ret' = [kind |-> "result",
               val |-> parse_resume_bytes(call.filename, call.data, call.fault, lib)]
    /\ pc' = "done"
    /\ UNCHANGED <<call, lib, batch>>

InitParse ==
    /\ pc = "call"
    /\ \/ call \in ScoreCalls
       \/ call \in ParseCalls
    /\ ret = NoRet
    /\ lib = {}
    /\ NoBatch

NextParse ==
    \/ ScoreConfidence
    \/ ParseResumeBytes

SpecParse == InitParse /\ [][NextParse]_vars

(***************************************************************************)
(* Properties of parse_resume_bytes and score_confidence.                  *)
(***************************************************************************)
ParseDone == pc = "done" /\ call.fn = "parse_resume_bytes"

ScoreDone == pc = "done" /\ call.fn = "score_confidence"

\* The result with nothing found: five fields None, confidence 0.0.
EmptyParsed ==
    [name |-> None, email |-> None, phone |-> None, linkedin |-> None,
     github |-> None, confidence |-> F0_0]

\* The part of a file name after its last dot, in lower case; the empty
\* text when the name holds no dot.
Extension(filename) ==
    LET dots == {i \in 1..Len(filename) : filename[i] = "."}
    IN  IF dots = {} THEN <<>>
        ELSE StrLower(SubSeq(filename, 1 + CHOOSE i \in dots : \A j \in dots : j <= i,
                             Len(filename)))

\* What the decoder of the call's file type makes of the call's data.
DecoderOutcome ==
    IF Extension(call.filename) = <<"p", "d", "f">>
    THEN pdf_text_with_ocr_fallback(call.data).out
    ELSE call.data.docx

Supported == Extension(call.filename) \in {<<"p", "d", "f">>, <<"d", "o", "c", "x">>}

\* A step of the call throws: the decoder, or the extraction step that the
\* fault names.
StepThrows == Supported /\ (~DecoderOutcome.ok \/ call.fault # "none")

ThrownMessage == IF ~DecoderOutcome.ok THEN DecoderOutcome.err ELSE Str.out_of_memory

\* C1: parse_resume_bytes never raises; when a step of decoding or of
\* extraction throws, it returns the five fields None, confidence 0.0 and an
\* error list that holds the message of the exception, and no field that was
\* extracted before the failure is in the result.
C1_NeverRaises ==
    ParseDone =>
        /\ ~ret.val.raised
        /\ StepThrows =>
              /\ ret.val.parsed = EmptyParsed
              /\ ret.val.errors = <<Str.Parse_error \o ThrownMessage>>

\* guess_name throws on a document whose e-mail address and phone number
\* extract_fields had found.
C1_Witness ==
    /\ ParseDone
    /\ call.fault = "guess_name"
    /\ Supported /\ DecoderOutcome.ok
    /\ extract_email(DecoderOutcome.text).some
    /\ normalize_phone(DecoderOutcome.text, lib).some
    /\ ret.val.parsed.email = None
    /\ ret.val.errors # <<>>

\* C2: for a file name whose extension is neither .pdf nor .docx,
\* parse_resume_bytes returns the five fields None, confidence 0.0 and one
\* error that names the unsupported type, and calls neither a decoder nor an
\* extractor.
C2_UnsupportedShortCircuits ==
    ParseDone /\ ~Supported =>
        /\ ret.val.parsed = EmptyParsed
        /\ ret.val.errors = <<Str.Unsupported_file_type \o call.filename>>
        /\ ret.val.calls = <<>>
        /\ ~ret.val.raised

\* A readable PDF under a name that ends in .bak.
C2_Witness ==
    /\ ParseDone
    /\ call.filename = <<"c", "v", ".", "p", "d", "f", ".", "b", "a", "k">>
    /\ call.data.miner = Returned(ResumeText(1..Len(ResumeLines)))
    /\ call.fault = "none"
    /\ ret.val.calls = <<>>
    /\ ret.val.errors # <<>>

\* A field is present when it holds a string that is not empty.
Present(f) == f # None /\ f.val # <<>>

\* weight * [f]
Term(weight, f) == IF Present(f) THEN weight ELSE F0_0

\* 0.40*[email] + 0.25*[phone] + 0.15*[name] + 0.10*[linkedin] + 0.05*[github]
\* + 0.05, added from left to right in binary64.
WeightedSum ==
    FAdd(FAdd(FAdd(FAdd(FAdd(Term(F0_4, call.email), Term(F0_25, call.phone)),
                        Term(F0_15, call.name)),
                   Term(F0_1, call.linkedin)),
              Term(F0_05, call.github)),
         F0_05)

AllPresent ==
    /\ Present(call.name) /\ Present(call.email) /\ Present(call.phone)
    /\ Present(call.linkedin) /\ Present(call.github)

NonePresent ==
    /\ ~Present(call.name) /\ ~Present(call.email) /\ ~Present(call.phone)
    /\ ~Present(call.linkedin) /\ ~Present(call.github)

\* C3: with ocr_used false, score_confidence returns 0.40*[email] +
\* 0.25*[phone] + 0.15*[name] + 0.10*[linkedin] + 0.05*[github] + 0.05 for
\* every combination of present and absent fields: exactly 1.0 when all five
\* are present, exactly 0.05 when none is.
C3_WeightedSum ==
    ScoreDone /\ ~call.ocr_used =>
        /\ ret.val = WeightedSum
        /\ AllPresent => ret.val = F1_0
        /\ NonePresent => ret.val = F0_05

\* E-mail and phone alone, no OCR: 0.4 + 0.25 + 0.05 in binary64, which is
\* 0.7000000000000001 (0x1.6666666666667p-1).
C3_Witness ==
    /\ ScoreDone /\ ~call.ocr_used
    /\ Present(call.email) /\ Present(call.phone)
    /\ ~Present(call.name) /\ ~Present(call.linkedin) /\ ~Present(call.github)
    /\ ret.val = F(187904819, 107374192)

InUnitInterval(x) == FLessEq(F0_0, x) /\ FLessEq(x, F1_0)

\* C4: score_confidence returns a value in [0.0, 1.0] for every input, and
\* the confidence of every result of parse_resume_bytes (success, unsupported
\* type or error) is in [0.0, 1.0].
C4_ConfidenceInUnitInterval ==
    /\ ScoreDone => InUnitInterval(ret.val)
    /\ ParseDone => InUnitInterval(ret.val.parsed.confidence)

\* A PDF read by OCR in which nothing is found: confidence 0.0, the lower
\* end of the interval, in a result without errors.
C4_Witness ==
    /\ ParseDone
    /\ ret.val.ocr_used
    /\ ret.val.errors = <<>>
    /\ ret.val.parsed = EmptyParsed

(***************************************************************************)
(* The calls of extract_linkedin and extract_github: a profile URL written *)
(* with or without a scheme, in either case, after a keyword, in an href   *)
(* attribute or in running text.                                           *)
(***************************************************************************)
UrlLeads(keyword) ==
    { <<>>, keyword, <<"h", "r", "e", "f", "=", "\"">>, <<"s", "e", "e", " ">>,
      keyword \o <<"h", "r", "e", "f", "=", "\"">> }

UrlSchemes ==
    { <<>>, Str.http \o Str.colon_slashes, Str.https, <<"H", "T", "T", "P", ":", "/", "/">>,
      <<"H", "T", "T", "P", "S", ":", "/", "/">>, Str.www_dot, Str.https_www }

UrlUsers == { <<"j", "a", "n", "e">>, <<"j", "-", "d">> }

UrlTails == { <<>>, <<"\"">>, <<"\n", "x">> }

UrlTexts(keyword, hosts) ==
    { lead \o scheme \o host \o user \o tail :
        lead \in UrlLeads(keyword), scheme \in UrlSchemes, host \in hosts,
        user \in UrlUsers, tail \in UrlTails }

LinkedinTexts ==
    UrlTexts(<<"L", "i", "n", "k", "e", "d", "I", "n", ":", " ">>,
             { Str.linkedin_com_in,
               <<"L", "I", "N", "K", "E", "D", "I", "N", ".", "C", "O", "M", "/", "I", "N", "/">> })

GithubTexts ==
    UrlTexts(<<"G", "i", "t", "H", "u", "b", ":", " ">>,
             { Str.github_com, <<"G", "i", "t", "H", "u", "b", ".", "c", "o", "m", "/">> })

ExtractLinkedin ==
    /\ pc = "call"
    /\ call.fn = "extract_linkedin"
    /\ ret' = extract_linkedin(call.text)
    /\ pc' = "done"
    /\ UNCHANGED <<call, lib, batch>>

ExtractGithub ==
    /\ pc = "call"
    /\ call.fn = "extract_github"
    /\ ret' = extract_github(call.text)
    /\ pc' = "done"
    /\ UNCHANGED <<call, lib, batch>>

InitUrl ==
    /\ pc = "call"
    /\ \/ call \in [fn : {"extract_linkedin"}, text : LinkedinTexts]
       \/ call \in [fn : {"extract_github"}, text : GithubTexts]
    /\ ret = None
    /\ lib = {}
    /\ NoBatch

NextUrl ==
    \/ ExtractLinkedin
    \/ ExtractGithub

SpecUrl == InitUrl /\ [][NextUrl]_vars

\* C5: every value that extract_linkedin or extract_github returns, other
\* than None, begins with "https://", whichever tier found it and however
\* the URL was written in the text.
C5_ReturnsHttps ==
    pc = "done" /\ ret.some => StartsWith(ret.val, Str.https)

(***************************************************************************)
(* The calls of normalize_phone: digit strings of 5 to 12 digits, written  *)
(* plain or with separators between the digits, and texts with a plus      *)
(* sign, letters or words.  lib is what the library's metadata holds of    *)
(* the numbers the model is not sure of.                                   *)
(***************************************************************************)
PhoneDigits ==
    { <<"1", "2", "3", "4", "5">>,
      <<"1", "2", "3", "4", "5", "6">>,
      <<"1", "2", "3", "4", "5", "6", "7">>,
      <<"9", "8", "7", "6", "5", "4", "3", "2", "1">>,
      <<"9", "8", "7", "6", "5", "4", "3", "2", "1", "0">>,
      <<"0", "0", "0", "0", "0", "0", "0", "0", "0", "0">>,
      <<"9", "1", "2", "3", "4", "5", "6", "7", "8", "0">>,
      <<"1", "2", "3", "4", "5", "6", "7", "8", "9", "0">>,
      <<"0", "9", "8", "7", "6", "5", "4", "3", "2", "1">>,
      <<"1", "8", "0", "0", "3", "5", "6", "9", "3", "7", "7">>,
      <<"9", "1", "9", "8", "7", "6", "5", "4", "3", "2", "1", "0">> }

OtherPhoneTexts ==
    { <<"+", "1", " ", "8", "0", "0", " ", "F", "L", "O", "W", "E", "R", "S">>,
      <<"+", "1", "8", "0", "0", "F", "L", "O", "W", "E", "R", "S">>,
      <<"+", "1", "2", "3", "4", "5">>,
      <<"+", "9", "1", " ", "1", "2", "3", "4", "5">>,
      <<"+", "9", "1", " ", "9", "8", "7", "6", "5", " ", "4", "3", "2", "1", "0">>,
      <<"+", "9", "1", "9", "8", "7", "6", "5", "4", "3", "2", "1", "0">>,
      <<"+", "1", " ", "(", "8", "0", "0", ")", " ", "3", "5", "6", "-", "9", "3", "7", "7">>,
      <<"+", "4", "4", " ", "2", "0", " ", "7", "9", "4", "6", " ", "0", "9", "5", "8">>,
      <<"P", "h", "o", "n", "e", ":", " ", "9", "8", "7", "6", "5", "4", "3", "2", "1", "0">>,
      <<"c", "a", "l", "l", " ", "1", "2", "3", "4", "5">>,
      <<"p", "h", " ", "5", "5", "5", "-", "0", "1", "0", "0">>,
      <<"+", "1", " ", "5", "5", "5", " ", "0", "1", "0", "0">>,
      <<"a", "b", "c">>,
      <<>> }

\* A format is a set of <<k, sep>>: sep is written before the k-th digit.
PhoneFormats ==
    { {},
      { <<1, <<"(">> >>, <<4, <<")", " ">> >>, <<7, <<"-">> >> },
      { <<4, <<"-">> >>, <<7, <<"-">> >> },
      { <<4, <<".">> >>, <<7, <<".">> >> },
      { <<6, <<" ">> >> },
      { <<1, <<" ">> >>, <<3, <<"\n">> >>, <<5, <<"\t">> >> },
      { <<k, <<"-">> >> : k \in 2..12 },
      { <<2, <<" ", "(", " ">> >>, <<5, <<".", ")">> >> } }

RECURSIVE PunctuateFrom(_, _, _)
PunctuateFrom(digits, format, k) ==
    IF k > Len(digits) THEN <<>>
    ELSE (IF \E e \in format : e[1] = k
          THEN (CHOOSE e \in format : e[1] = k)[2]
          ELSE <<>>)
         \o <<digits[k]>> \o PunctuateFrom(digits, format, k + 1)

Punctuate(digits, format) == PunctuateFrom(digits, format, 1)

\* Texts of several numbers with a comma between them: a run of seven
\* digits, which does not parse without a calling code, a run of ten that
\* is no number, the mobile number of the tests, the toll-free number with
\* its calling code, a run of ten the model is not sure of, and five digits,
\* which are no run.
MaxRuns == 3

ScanRuns ==
    { <<"1", "2", "3", "4", "5", "6", "7">>,
      <<"0", "0", "0", "0", "0", "0", "0", "0", "0", "0">>,
      <<"9", "8", "7", "6", "5", "4", "3", "2", "1", "0">>,
      <<"1", "8", "0", "0", "3", "5", "6", "9", "3", "7", "7">>,
      <<"9", "1", "2", "3", "4", "5", "6", "7", "8", "0">>,
      <<"1", "2", "3", "4", "5">> }

ScanTexts ==
    UNION { {Join(<<",", " ">>, runs) : runs \in [1..n -> ScanRuns]} : n \in 2..MaxRuns }

PhoneTexts ==
    {Punctuate(d, f) : d \in PhoneDigits, f \in PhoneFormats} \cup OtherPhoneTexts
    \cup ScanTexts

UncertainNumbers ==
    { <<"9", "1", "9", "1", "2", "3", "4", "5", "6", "7", "8", "0">>,
      <<"9", "1", "1", "2", "3", "4", "5", "6", "7", "8", "9", "0">>,
      <<"9", "1", "9", "8", "7", "6", "5", "4", "3", "2", "1">>,
      <<"4", "4", "2", "0", "7", "9", "4", "6", "0", "9", "5", "8">> }

NormalizePhone ==
    /\ pc = "call"
    /\ call.fn = "normalize_phone"
    /\ ret' = normalize_phone(call.text, lib)
    /\ pc' = "done"
    /\ UNCHANGED <<call, lib, batch>>

InitPhone ==
    /\ pc = "call"
    /\ call \in [fn : {"normalize_phone"}, text : PhoneTexts]
    /\ ret = None
    /\ lib \in SUBSET UncertainNumbers
    /\ NoBatch

NextPhone ==
    \/ NormalizePhone

SpecPhone == InitPhone /\ [][NextPhone]_vars

PhoneDone == pc = "done" /\ call.fn = "normalize_phone"

\* The input is a sequence of ten digits and nothing else.
TenDigits == Len(call.text) = 10 /\ \A i \in 1..10 : call.text[i] \in Digit

\* India's calling code before the ten digits of the input.
WithIndiaCode == [ok |-> TRUE, cc |-> <<"9", "1">>, nsn |-> call.text]

\* C6 as stated: for a 10-digit sequence with no country code,
\* normalize_phone returns "+91" followed by the ten digits.  Stated for the
\* library that holds every number the model is not sure of.
C6_TenDigitsGetIndiaCode ==
    PhoneDone /\ TenDigits /\ lib = UncertainNumbers =>
        ret = Some(<<"+", "9", "1">> \o call.text)

\* C6, amended: for a 10-digit sequence with no country code that does not
\* start with 0, normalize_phone returns "+91" followed by the ten digits
\* when the library holds that number valid, and None when it does not.
C6_TenDigitsValidGetIndiaCode ==
    PhoneDone /\ TenDigits /\ call.text[1] # "0" =>
        ret = IF is_valid_number(WithIndiaCode, lib)
              THEN Some(<<"+", "9", "1">> \o call.text)
              ELSE None

\* The mobile number of the repository's tests.
C6_Witness ==
    /\ PhoneDone /\ TenDigits
    /\ call.text = <<"9", "8", "7", "6", "5", "4", "3", "2", "1", "0">>
    /\ ret = Some(<<"+", "9", "1", "9", "8", "7", "6", "5", "4", "3", "2", "1", "0">>)

\* The separators of the claim: white space, hyphens, parentheses, periods.
ClaimSeparators == {" ", "\n", "\t", "-", "(", ")", "."}

DigitsAndSeparators ==
    \A i \in 1..Len(call.text) : call.text[i] \in Digit \cup ClaimSeparators

HoldsSeparator == \E i \in 1..Len(call.text) : call.text[i] \in ClaimSeparators

\* C7: white space, hyphens, parentheses and periods written anywhere into
\* a digits-only input do not change what normalize_phone returns.
C7_SeparatorInvariance ==
    PhoneDone /\ DigitsAndSeparators =>
        ret = normalize_phone(SelectChars(call.text, Digit), lib)

\* "(987) 654-3210" gives what "9876543210" gives.
C7_Witness ==
    /\ PhoneDone
    /\ call.text = <<"(", "9", "8", "7", ")", " ", "6", "5", "4", "-", "3", "2", "1", "0">>
    /\ HoldsSeparator
    /\ ret = Some(<<"+", "9", "1", "9", "8", "7", "6", "5", "4", "3", "2", "1", "0">>)

\* The input has fewer than 7 digits.
FewDigits == Len(SelectChars(call.text, Digit)) < 7

\* The library parses the input as it stands and holds the number valid.
ParsesAsValid ==
    phonenumbers_parse(call.text).ok /\ is_valid_number(phonenumbers_parse(call.text), lib)

\* C8 as stated: for an input with fewer than 7 digits after the separators
\* are stripped, normalize_phone returns None.
C8_FewDigitsGiveNone ==
    PhoneDone /\ FewDigits => ret = None

\* C8, amended: for an input with fewer than 7 digits that the library does
\* not itself parse as a valid international number, normalize_phone returns
\* None.
C8_FewDigitsUnparsedGiveNone ==
    PhoneDone /\ FewDigits /\ ~ParsesAsValid => ret = None

\* "12345"
C8_Witness ==
    /\ PhoneDone /\ FewDigits /\ ~ParsesAsValid
    /\ call.text = <<"1", "2", "3", "4", "5">>
    /\ ret = None

(***************************************************************************)
(* The calls of extract_email: a mailto link, alone or in an href          *)
(* attribute, with another address, a keyword or a table bar before or     *)
(* after it.                                                               *)
(***************************************************************************)
MailLeads ==
    { <<>>,
      <<"x", "@", "y", ".", "i", "o", " ">>,
      <<"E", "m", "a", "i", "l", ":", " ", "x", "@", "y", ".", "i", "o", " ">>,
      <<"E", "m", "a", "i", "l", ":", " ">>,
      <<"h", "r", "e", "f", "=", "\"">>,
      <<"C", "o", "n", "t", "a", "c", "t", " ", "x", "@", "y", ".", "i", "o", "\n">> }

MailSchemes ==
    { <<"m", "a", "i", "l", "t", "o", ":">>,
      <<"M", "A", "I", "L", "T", "O", ":">>,
      <<"m", "a", "i", "l", "t", "o", ":", " ">> }

MailAddresses ==
    { <<"a", "@", "b", ".", "c", "o">>,
      <<"A", "@", "B", ".", "C", "o">>,
      <<"j", "a", "n", "e", ".", "d", "o", "e", "@", "e", "x", "a", "m", "p", "l", "e", ".", "c", "o", "m">> }

MailTails ==
    { <<>>,
      <<"|", "x">>,
      <<"\"">>,
      <<" ", "x", "@", "y", ".", "i", "o">>,
      <<"\n", "E", "m", "a", "i", "l", ":", " ", "x", "@", "y", ".", "i", "o">>,
      <<"?", "s", "u", "b", "j", "e", "c", "t", "=", "h", "i">>,
      <<"|", "P", "h", "o", "n", "e">> }

MailTexts ==
    { lead \o scheme \o address \o tail :
        lead \in MailLeads, scheme \in MailSchemes, address \in MailAddresses,
        tail \in MailTails }

ExtractEmail ==
    /\ pc = "call"
    /\ call.fn = "extract_email"
    /\ ret' = extract_email(call.text)
    /\ pc' = "done"
    /\ UNCHANGED <<call, lib, batch>>

InitEmail ==
    /\ pc = "call"
    /\ call \in [fn : {"extract_email"}, text : MailTexts]
    /\ ret = None
    /\ lib = {}
    /\ NoBatch

NextEmail ==
    \/ ExtractEmail

SpecEmail == InitEmail /\ [][NextEmail]_vars

\* Where the first "mailto:" of the text ends, in either case; 0 when the
\* text holds none.
MailtoEnd ==
    LET at == {i \in 1..Len(call.text) - 6 :
                 StrLower(SubSeq(call.text, i, i + 6)) = Str.mailto}
    IN  IF at = {} THEN 0 ELSE 6 + CHOOSE i \in at : \A j \in at : i <= j

\* The address of the link: after "mailto:" and the blanks that follow it,
\* the characters up to the first that no address holds (a bar, a quote, a
\* question mark, white space) or to the end of the text.
MailtoAddress ==
    LET b == MailtoEnd + 1 + Run({" "}, call.text, MailtoEnd + 1, Inf)
    IN  SubSeq(call.text, b, b + Run(EmailLocal \cup {"@"}, call.text, b, Inf) - 1)

\* C9: for a text that holds a mailto: link, extract_email returns the
\* address of that link in lower case, whatever other address the text holds
\* before or after the link.
C9_MailtoAddressWins ==
    pc = "done" /\ call.fn = "extract_email" /\ MailtoEnd > 0 =>
        ret = Some(StrLower(MailtoAddress))

(***************************************************************************)
(* The batch of main.py (batch_parse_resumes, process_single_file) and of  *)
(* tasks.py (batch_parse_task, process_single_file_async).  The settings   *)
(* both files read from the environment are small here.  A listed file     *)
(* carries what the services answer for it: how its download goes on each  *)
(* attempt, the document it holds, and whether the logging call raises.    *)
(***************************************************************************)
MAX_CONCURRENT_REQUESTS == 1

SPREADSHEET_BATCH_SIZE == 2

MAX_RETRIES == 3

MaxFiles == 3

BatchStr ==
    [Missing_file_ID |-> <<"M", "i", "s", "s", "i", "n", "g", " ", "f", "i", "l", "e", " ", "I", "D">>,
     HTTP_error_processing_file |-> <<"H", "T", "T", "P", " ", "e", "r", "r", "o", "r", " ", "p", "r", "o", "c", "e", "s", "s", "i", "n", "g", " ", "f", "i", "l", "e", ":", " ">>,
     dash |-> <<" ", "-", " ">>,
     Error_processing_file |-> <<"E", "r", "r", "o", "r", " ", "p", "r", "o", "c", "e", "s", "s", "i", "n", "g", " ", "f", "i", "l", "e", ":", " ">>,
     Task_exception |-> <<"T", "a", "s", "k", " ", "e", "x", "c", "e", "p", "t", "i", "o", "n", ":", " ">>,
     unknown |-> <<"u", "n", "k", "n", "o", "w", "n">>,
     drive_file_d |-> <<"h", "t", "t", "p", "s", ":", "/", "/", "d", "r", "i", "v", "e", ".", "g", "o", "o", "g", "l", "e", ".", "c", "o", "m", "/", "f", "i", "l", "e", "/", "d", "/">>,
     view |-> <<"/", "v", "i", "e", "w">>,
     bearer_required |-> <<"X", "-", "G", "o", "o", "g", "l", "e", "-", "B", "e", "a", "r", "e", "r", " ", "h", "e", "a", "d", "e", "r", " ", "i", "s", " ", "r", "e", "q", "u", "i", "r", "e", "d", " ", "t", "o", " ", "a", "c", "c", "e", "s", "s", " ", "G", "o", "o", "g", "l", "e", " ", "D", "r", "i", "v", "e">>,
     Error_accessing_folder |-> <<"E", "r", "r", "o", "r", " ", "a", "c", "c", "e", "s", "s", "i", "n", "g", " ", "G", "o", "o", "g", "l", "e", " ", "D", "r", "i", "v", "e", " ", "f", "o", "l", "d", "e", "r", ":", " ">>,
     Unexpected_error |-> <<"U", "n", "e", "x", "p", "e", "c", "t", "e", "d", " ", "e", "r", "r", "o", "r", ":", " ">>,
     Name |-> <<"N", "a", "m", "e">>,
     Resume_Link |-> <<"R", "e", "s", "u", "m", "e", " ", "L", "i", "n", "k">>,
     Phone_Number |-> <<"P", "h", "o", "n", "e", " ", "N", "u", "m", "b", "e", "r">>,
     Email_ID |-> <<"E", "m", "a", "i", "l", " ", "I", "D">>,
     LinkedIn |-> <<"L", "i", "n", "k", "e", "d", "I", "n">>,
     GitHub |-> <<"G", "i", "t", "H", "u", "b">>,
     Not_Found |-> <<"N", "o", "t", " ", "F", "o", "u", "n", "d">>,
     Service_Unavailable |-> <<"S", "e", "r", "v", "i", "c", "e", " ", "U", "n", "a", "v", "a", "i", "l", "a", "b", "l", "e">>,
     timed_out |-> <<"t", "i", "m", "e", "d", " ", "o", "u", "t">>,
     Forbidden |-> <<"F", "o", "r", "b", "i", "d", "d", "e", "n">>,
     connection_refused |-> <<"c", "o", "n", "n", "e", "c", "t", "i", "o", "n", " ", "r", "e", "f", "u", "s", "e", "d">>,
     stream_closed |-> <<"s", "t", "r", "e", "a", "m", " ", "c", "l", "o", "s", "e", "d">>]

DigitSeq == <<"0", "1", "2", "3", "4", "5", "6", "7", "8", "9">>

\* str() of a status code, as the f-string formats it.
RECURSIVE str_int(_)
str_int(n) ==
    IF n < 10 THEN <<DigitSeq[n + 1]>>
    ELSE str_int(n \div 10) \o <<DigitSeq[(n % 10) + 1]>>

ParsedCandidate(drive_file_id, source_file, parsed, errors) ==
    [drive_file_id |-> drive_file_id, source_file |-> source_file,
     name |-> parsed.name, email |-> parsed.email, phone |-> parsed.phone,
     linkedin |-> parsed.linkedin, github |-> parsed.github,
     confidence |-> parsed.confidence, errors |-> errors]

\* The entry written out in literals for a file without a result.
failed_candidate(drive_file_id, file_name, errors) ==
    ParsedCandidate(drive_file_id, file_name,
                    [name |-> None, email |-> None, phone |-> None,
                     linkedin |-> None, github |-> None, confidence |-> F0_0],
                    errors)

\* What a coroutine ends with: the value it returns or the exception it raises.
TaskResult(v) == [raised |-> FALSE, val |-> v, msg |-> <<>>]

TaskException(msg) == [raised |-> TRUE, val |-> <<>>, msg |-> msg]

\* file_info.get("name", "unknown"); a name of None is a listing without one.
file_name(file_info) ==
    IF file_info.name.some THEN file_info.name.val ELSE BatchStr.unknown

\* The name parse_resume_bytes is called with.
resume_filename(file_info) ==
    IF file_info.mimeType = "application/pdf"
    THEN IF EndsWith(file_name(file_info), Str.dot_pdf)
         THEN file_name(file_info) ELSE file_name(file_info) \o Str.dot_pdf
    ELSE IF file_info.mimeType
            = "application/vnd.openxmlformats-officedocument.wordprocessingml.document"
    THEN IF EndsWith(file_name(file_info), Str.dot_docx)
         THEN file_name(file_info) ELSE file_name(file_info) \o Str.dot_docx
    ELSE file_name(file_info)

\* The download of attempt number attempt (from 0): the first fails requests
\* for the file raise, the later ones return its content.
download_drive_file(file_info, attempt) ==
    IF attempt < file_info.download.fails
    THEN [ok |-> FALSE, kind |-> file_info.download.kind,
          status_code |-> file_info.download.status_code,
          text |-> file_info.download.text, content |-> file_info.content]
    ELSE [ok |-> TRUE, kind |-> "ok", status_code |-> 200, text |-> <<>>,
          content |-> file_info.content]

\* The try block after the download: log_parse_result raises inside it for a
\* file with that fault, and except Exception takes it.
parsed_candidate(file_info, result) ==
    IF file_info.fault = "log_parse_result"
    THEN [next |-> "break", val |-> <<>>,
          errors |-> result.errors
                     \o <<BatchStr.Error_processing_file \o BatchStr.stream_closed>>]
    ELSE [next |-> "return", errors |-> result.errors,
          val |-> ParsedCandidate(file_info.id, file_name(file_info),
                                  result.parsed, result.errors)]

\* The delay between retries in seconds, and the exponential backoff.
RETRY_DELAY == 1

\* The same delay before every attempt.
wait_time_constant(attempt) == RETRY_DELAY

wait_time(attempt) == RETRY_DELAY * (2 ^ attempt)

\* One iteration of the retry loop, from what the download gave: return,
\* sleep and continue, or break with the error appended.
after_download(file_info, attempt, got, valid) ==
    IF got.ok
    THEN parsed_candidate(file_info,
             parse_resume_bytes(resume_filename(file_info), got.content, "none", valid))
    ELSE IF got.kind = "HTTPStatusError"
    THEN IF (got.status_code = 429 \/ (500 <= got.status_code /\ got.status_code < 600))
            /\ attempt < MAX_RETRIES - 1
         THEN [next |-> "sleep", val |-> <<>>, errors |-> <<>>,
               wait_time |-> wait_time(attempt)]
         ELSE [next |-> "break", val |-> <<>>,
               errors |-> <<BatchStr.HTTP_error_processing_file
                            \o str_int(got.status_code) \o BatchStr.dash \o got.text>>]
    ELSE IF attempt < MAX_RETRIES - 1 /\ got.kind \in {"TimeoutException", "NetworkError"}
    THEN [next |-> "sleep", val |-> <<>>, errors |-> <<>>,
          wait_time |-> wait_time(attempt)]
    ELSE [next |-> "break", val |-> <<>>,
          errors |-> <<BatchStr.Error_processing_file \o got.text>>]

\* After the loop: log_parse_result, outside every try, and the entry.
after_retries(file_info, errors) ==
    IF file_info.fault = "log_parse_result"
    THEN TaskException(BatchStr.stream_closed)
    ELSE TaskResult(failed_candidate(file_info.id, file_name(file_info), errors))

\* async with semaphore, up to the first download.  A file without an id
\* returns at once and gives the semaphore back.
Acquire(k) ==
    /\ pc = "gather"
    /\ k \in DOMAIN tasks
    /\ tasks[k].st = "waiting"
    /\ sem > 0
    /\ IF ~Truthy(loc.drive_files[k].id)
       THEN /\ tasks' = [tasks EXCEPT ![k] =
                   [st |-> "done", attempt |-> 0, sleeps |-> <<>>,
                    out |-> TaskResult(failed_candidate(None, file_name(loc.drive_files[k]),
                                                        <<BatchStr.Missing_file_ID>>))]]
            /\ sem' = sem
       ELSE IF MAX_RETRIES = 0
       THEN /\ tasks' = [tasks EXCEPT ![k] =
                   [st |-> "done", attempt |-> 0, sleeps |-> <<>>,
                    out |-> after_retries(loc.drive_files[k], <<>>)]]
            /\ sem' = sem
       ELSE /\ tasks' = [tasks EXCEPT ![k] = [st |-> "download", attempt |-> 0, sleeps |-> <<>>,
                                              out |-> TaskResult(<<>>)]]
            /\ sem' = sem - 1
    /\ UNCHANGED <<pc, call, ret, lib, loc, sheet, redis, reader, frames>>

\* A coroutine that gives the semaphore back while it sleeps.
Continue_release_on_sleep(k, step) ==
    IF step.next = "sleep"
    THEN /\ tasks' = [tasks EXCEPT ![k].st = "sleep",
                                   ![k].sleeps = Append(@, step.wait_time)]
         /\ sem' = sem + 1
    ELSE /\ tasks' = [tasks EXCEPT ![k] =
                [st |-> "done", attempt |-> tasks[k].attempt, sleeps |-> tasks[k].sleeps,
                 out |-> IF step.next = "return" THEN TaskResult(step.val)
                         ELSE after_retries(loc.drive_files[k], step.errors)]]
         /\ sem' = sem + 1

\* What the coroutine of file k does with the step of its iteration.
Continue(k, step) ==
    IF step.next = "sleep"
    THEN /\ tasks' = [tasks EXCEPT ![k].st = "sleep",
                                   ![k].sleeps = Append(@, step.wait_time)]
         /\ sem' = sem
    ELSE /\ tasks' = [tasks EXCEPT ![k] =
                [st |-> "done", attempt |-> tasks[k].attempt, sleeps |-> tasks[k].sleeps,
                 out |-> IF step.next = "return" THEN TaskResult(step.val)
                         ELSE after_retries(loc.drive_files[k], step.errors)]]
         /\ sem' = sem + 1

\* await download_drive_file returns or raises, and the iteration runs to
\* its return, its sleep or its break.
Download(k) ==
    /\ pc = "gather"
    /\ k \in DOMAIN tasks
    /\ tasks[k].st = "download"
    /\ Continue(k, after_download(loc.drive_files[k], tasks[k].attempt,
                   download_drive_file(loc.drive_files[k], tasks[k].attempt), lib))
    /\ UNCHANGED <<pc, call, ret, lib, loc, sheet, redis, reader, frames>>

\* asyncio.sleep(wait_time) is over: the next iteration starts its download.
Wake(k) ==
    /\ pc = "gather"
    /\ k \in DOMAIN tasks
    /\ tasks[k].st = "sleep"
    /\ tasks' = [tasks EXCEPT ![k].st = "download", ![k].attempt = @ + 1]
    /\ UNCHANGED <<pc, call, ret, lib, sem, loc, sheet, redis, reader, frames>>

(***************************************************************************)
(* The Google services, as the handlers see them.  http is what the        *)
(* requests of one call meet.                                              *)
(***************************************************************************)
ServiceHttp == {"ok", "HTTPStatusError", "ConnectError"}

SheetHttp == {"ok", "check_fails", "write_fails"}

ServiceError(http) ==
    [ok |-> FALSE, kind |-> http,
     text |-> IF http = "HTTPStatusError" THEN BatchStr.Forbidden
              ELSE BatchStr.connection_refused]

list_drive_folder_files(folder, http) ==
    IF http = "ok" THEN [ok |-> TRUE, kind |-> "ok", text |-> <<>>, files |-> folder]
    ELSE ServiceError(http) @@ [files |-> <<>>]

NewSpreadsheetId == <<"s", "1">>

create_spreadsheet(http) ==
    IF http = "ok" THEN [ok |-> TRUE, kind |-> "ok", text |-> <<>>, id |-> Some(NewSpreadsheetId)]
    ELSE ServiceError(http) @@ [id |-> None]

get_drive_file_url(file_id) == BatchStr.drive_file_d \o file_id \o BatchStr.view

header_row ==
    <<BatchStr.Name, BatchStr.Resume_Link, BatchStr.Phone_Number,
      BatchStr.Email_ID, BatchStr.LinkedIn, BatchStr.GitHub>>

\* PUT at A1: the values take the place of the first rows.
PutAtA1(existing, values) ==
    values \o SubSeq(existing, Len(values) + 1, Len(existing))

\* write_to_spreadsheet on a spreadsheet of the rows existing: the rows it
\* leaves, or the exception of raise_for_status.  With check_fails the
\* request for A1:Z1 does not answer 200 and the PUT goes through.
write_to_spreadsheet(existing, data_rows, skip_headers, http) ==
    IF http = "check_fails" \/ existing = <<>> \/ existing[1] = <<>>
    THEN IF http = "write_fails"
         THEN ServiceError("HTTPStatusError") @@ [rows |-> existing]
         ELSE [ok |-> TRUE, kind |-> "ok", text |-> <<>>, rows |-> PutAtA1(existing, data_rows)]
    ELSE IF (IF skip_headers THEN data_rows ELSE Tail(data_rows)) = <<>>
    THEN [ok |-> TRUE, kind |-> "ok", text |-> <<>>, rows |-> existing]
    ELSE IF http = "write_fails"
    THEN ServiceError("HTTPStatusError") @@ [rows |-> existing]
    ELSE [ok |-> TRUE, kind |-> "ok", text |-> <<>>,
          rows |-> existing \o (IF skip_headers THEN data_rows ELSE Tail(data_rows))]

(***************************************************************************)
(* What the two handlers share: the listing and the spreadsheet before the *)
(* files are processed, and a gathered batch.                              *)
(***************************************************************************)
\* The spreadsheet of the request, or a new one with the header row.
open_spreadsheet(spreadsheet_id, existing, created, header) ==
    IF Truthy(spreadsheet_id)
    THEN [ok |-> TRUE, kind |-> "ok", text |-> <<>>, id |-> spreadsheet_id, rows |-> existing]
    ELSE IF ~created.ok
    THEN [ok |-> FALSE, kind |-> created.kind, text |-> created.text,
          id |-> spreadsheet_id, rows |-> existing]
    ELSE [ok |-> header.ok, kind |-> header.kind, text |-> header.text,
          id |-> created.id, rows |-> header.rows]

\* The coroutines of the files, those of the batch from file i + 1 on scheduled.
BatchTasks(n, i) ==
    [k \in 1..n |->
        [st |-> IF i < k /\ k <= i + SPREADSHEET_BATCH_SIZE THEN "waiting" ELSE "created",
         attempt |-> 0, sleeps |-> <<>>, out |-> TaskResult(<<>>)]]

BatchFirst == loc.i + 1

BatchLast ==
    IF loc.i + SPREADSHEET_BATCH_SIZE < Len(loc.drive_files)
    THEN loc.i + SPREADSHEET_BATCH_SIZE ELSE Len(loc.drive_files)

\* A slip in the gathering: the first exception of a coroutine is raised.
gather_first_exception(ts, first, last) ==
    IF \E k \in first..last : ts[k].out.raised
    THEN [raised |-> TRUE,
          msg |-> ts[CHOOSE k \in first..last :
                        /\ ts[k].out.raised
                        /\ \A j \in first..(k - 1) : ~ts[j].out.raised].out.msg,
          results |-> <<>>]
    ELSE [raised |-> FALSE, msg |-> <<>>,
          results |-> [k \in 1..(last - first + 1) |-> ts[first + k - 1].out]]

\* asyncio.gather(*tasks, return_exceptions=True): the results and the
\* exceptions, in the order of the coroutines.
gather(ts, first, last) ==
    [raised |-> FALSE, msg |-> <<>>,
     results |-> [k \in 1..(last - first + 1) |-> ts[first + k - 1].out]]

\* The loop over the gathered results: an entry in the place of an exception.
handle_exceptions(results, batch_files) ==
    [k \in DOMAIN results |->
        IF results[k].raised
        THEN failed_candidate(None, file_name(batch_files[k]),
                              <<BatchStr.Task_exception \o results[k].msg>>)
        ELSE results[k].val]

\* value or ""
OrEmpty(o) == IF Truthy(o) THEN o.val ELSE <<>>

row(candidate) ==
    <<OrEmpty(candidate.name),
      IF Truthy(candidate.drive_file_id)
      THEN get_drive_file_url(candidate.drive_file_id.val) ELSE <<>>,
      OrEmpty(candidate.phone), OrEmpty(candidate.email),
      OrEmpty(candidate.linkedin), OrEmpty(candidate.github)>>

\* main.py: a row for every entry.
data_rows(batch_results) == [k \in DOMAIN batch_results |-> row(batch_results[k])]

\* tasks.py: only the rows with a cell that is not blank.
task_data_rows(batch_results) ==
    SelectSeq(data_rows(batch_results),
              LAMBDA r : \E c \in DOMAIN r : Strip(r[c]) # <<>>)

\* The try block around the write of a batch: the rows the spreadsheet
\* holds after it and the rows counted, an exception logged and dropped.
write_batch(existing, rows, http) ==
    IF rows # <<>> /\ write_to_spreadsheet(existing, rows, TRUE, http).ok
    THEN [rows |-> write_to_spreadsheet(existing, rows, TRUE, http).rows,
          written |-> Len(rows)]
    ELSE [rows |-> existing, written |-> 0]

(***************************************************************************)
(* POST /batch-parse: batch_parse_resumes.                                 *)
(***************************************************************************)
HTTPException(status_code, detail) ==
    [kind |-> "HTTPException", status_code |-> status_code, detail |-> detail]

\* The two except clauses around the handler's body.
http_exception(e) ==
    IF e.kind = "HTTPStatusError"
    THEN HTTPException(400, BatchStr.Error_accessing_folder \o e.text)
    ELSE HTTPException(500, BatchStr.Unexpected_error \o e.text)

\* The handler up to the first gather, with the folder listed and the
\* spreadsheet opened.
resumes_listed(listed, opened) ==
    IF ~listed.ok
    THEN /\ pc' = "failed"
         /\ ret' = http_exception(listed)
         /\ UNCHANGED <<tasks, sem, loc, sheet>>
    ELSE IF listed.files = <<>>
    THEN /\ pc' = "done"
         /\ ret' = [kind |-> "response", val |-> <<>>]
         /\ UNCHANGED <<tasks, sem, loc, sheet>>
    ELSE IF ~opened.ok
    THEN /\ pc' = "failed"
         /\ ret' = http_exception(opened)
         /\ sheet' = opened.rows
         /\ UNCHANGED <<tasks, sem, loc>>
    ELSE /\ pc' = "gather"
         /\ ret' = ret
         /\ tasks' = BatchTasks(Len(listed.files), 0)
         /\ sem' = MAX_CONCURRENT_REQUESTS
         /\ loc' = [drive_files |-> listed.files, spreadsheet_id |-> opened.id,
                    results |-> <<>>, processed_count |-> 0, i |-> 0]
         /\ sheet' = opened.rows

BatchParseResumes ==
    /\ pc = "call"
    /\ call.fn = "batch_parse_resumes"
    /\ IF ~Truthy(call.x_google_bearer)
       THEN /\ pc' = "failed"
            /\ ret' = HTTPException(400, BatchStr.bearer_required)
            /\ UNCHANGED <<tasks, sem, loc, sheet>>
       ELSE \E listing \in ServiceHttp, creating \in ServiceHttp, heading \in SheetHttp :
                resumes_listed(list_drive_folder_files(call.folder, listing),
                    open_spreadsheet(call.spreadsheet_id, sheet, create_spreadsheet(creating),
                        write_to_spreadsheet(<<>>, <<header_row>>, FALSE, heading)))
    /\ UNCHANGED <<call, lib, redis, reader, frames>>

\* The coroutines, with those of the next batch scheduled.
NextTasks ==
    [k \in DOMAIN tasks |->
        IF BatchLast < k /\ k <= BatchLast + SPREADSHEET_BATCH_SIZE
        THEN [tasks[k] EXCEPT !.st = "waiting"] ELSE tasks[k]]

\* The rest of an iteration of the loop over the batches, from the write
\* of the rows on.
resumes_written(batch_results, written) ==
    /\ sheet' = written.rows
    /\ IF BatchLast < Len(loc.drive_files)
       THEN /\ loc' = [loc EXCEPT !.results = @ \o batch_results,
                                  !.processed_count = @ + written.written,
                                  !.i = @ + SPREADSHEET_BATCH_SIZE]
            /\ tasks' = NextTasks
            /\ UNCHANGED <<pc, ret>>
       ELSE /\ loc' = [loc EXCEPT !.results = @ \o batch_results,
                                  !.processed_count = @ + written.written]
            /\ pc' = "done"
            /\ ret' = [kind |-> "response", val |-> loc.results \o batch_results]
            /\ tasks' = tasks

\* A slip in the handler: the exception of the write of a batch is not
\* caught, and the request fails with it.
resumes_gathered_write_aborts(gathered, http) ==
    IF gathered.raised
    THEN /\ pc' = "failed"
         /\ ret' = HTTPException(500, BatchStr.Unexpected_error \o gathered.msg)
         /\ UNCHANGED <<tasks, loc, sheet>>
    ELSE IF ~write_to_spreadsheet(sheet,
                 data_rows(handle_exceptions(gathered.results,
                               SubSeq(loc.drive_files, BatchFirst, BatchLast))),
                 TRUE, http).ok
    THEN /\ pc' = "failed"
         /\ ret' = HTTPException(500, BatchStr.Unexpected_error \o BatchStr.Forbidden)
         /\ UNCHANGED <<tasks, loc, sheet>>
    ELSE resumes_written(
             handle_exceptions(gathered.results,
                               SubSeq(loc.drive_files, BatchFirst, BatchLast)),
             write_batch(sheet,
                 data_rows(handle_exceptions(gathered.results,
                               SubSeq(loc.drive_files, BatchFirst, BatchLast))),
                 http))

resumes_gathered(gathered, http) ==
    IF gathered.raised
    THEN /\ pc' = "failed"
         /\ ret' = HTTPException(500, BatchStr.Unexpected_error \o gathered.msg)
         /\ UNCHANGED <<tasks, loc, sheet>>
    ELSE resumes_written(
             handle_exceptions(gathered.results,
                               SubSeq(loc.drive_files, BatchFirst, BatchLast)),
             write_batch(sheet,
                 data_rows(handle_exceptions(gathered.results,
                               SubSeq(loc.drive_files, BatchFirst, BatchLast))),
                 http))

\* await asyncio.gather returns: every coroutine of the batch is done.
ResumesGathered ==
    /\ pc = "gather"
    /\ call.fn = "batch_parse_resumes"
    /\ \A k \in BatchFirst..BatchLast : tasks[k].st = "done"
    /\ \E http \in SheetHttp : resumes_gathered(gather(tasks, BatchFirst, BatchLast), http)
    /\ UNCHANGED <<call, lib, sem, redis, reader, frames>>

(***************************************************************************)
(* The Celery task batch_parse_task.  A status is the dictionary written   *)
(* under job:{job_id}:status, with the keys the source gives it; a time    *)
(* stamp is a token.                                                       *)
(***************************************************************************)
StartedAt == <<"T", "1">>

CompletedAt == <<"T", "2">>

\* created_at of the status the job was submitted with, if there is one.
created_at ==
    IF redis.status.some /\ "created_at" \in DOMAIN redis.status.val
    THEN Some(redis.status.val.created_at) ELSE None

\* if created_at: ... if started_at: ...
with_timestamps(status_data, created) ==
    IF Truthy(created)
    THEN status_data @@ [created_at |-> created.val, started_at |-> StartedAt]
    ELSE status_data @@ [started_at |-> StartedAt]

\* A slip in the progress: the count of processed files is not divided by
\* the total.
progress_undivided(processed_count, total_files) ==
    IF total_files > 0 THEN processed_count * 100 ELSE 0

\* int((processed_count / total_files) * 100), which for the totals of the
\* model is the integer quotient.
progress(processed_count, total_files) ==
    IF total_files > 0 THEN (processed_count * 100) \div total_files ELSE 0

processing_status(processed_count, total_files, spreadsheet_id) ==
    [status |-> "processing", progress |-> progress(processed_count, total_files),
     total_files |-> total_files, processed_files |-> processed_count,
     spreadsheet_id |-> spreadsheet_id]

completed_status(processed_count, total_files, spreadsheet_id, results_count) ==
    [status |-> "completed", progress |-> 100, total_files |-> total_files,
     processed_files |-> processed_count, spreadsheet_id |-> spreadsheet_id,
     results_count |-> results_count, completed_at |-> CompletedAt,
     duration_seconds |-> "seconds"]

revoked_status(processed_count, total_files, spreadsheet_id) ==
    [status |-> "revoked", progress |-> progress(processed_count, total_files),
     total_files |-> total_files, processed_files |-> processed_count,
     spreadsheet_id |-> spreadsheet_id, completed_at |-> CompletedAt,
     duration_seconds |-> "seconds"]

\* except Exception as e: the status written before the exception is raised
\* again.
failed_status(e, processed_count, total_files, spreadsheet_id) ==
    [status |-> "failed", error |-> e, total_files |-> total_files,
     processed_files |-> processed_count, spreadsheet_id |-> spreadsheet_id,
     completed_at |-> CompletedAt, duration_seconds |-> "seconds"]

setex(value) == [some |-> TRUE, val |-> value]

\* The locals of the task before the folder is listed.
task_locals(created) ==
    [drive_files |-> <<>>, spreadsheet_id |-> call.spreadsheet_id, results |-> <<>>,
     processed_count |-> 0, i |-> 0, created_at |-> created]

\* A call of Redis raises only when the connection is flaky.
StoreRaises == IF redis.flaky THEN BOOLEAN ELSE {FALSE}

\* except Exception as e: the status failed is written with the locals of
\* the task and the exception is raised again; when that write raises too,
\* the status stays as it is and the task ends with the error of Redis.
except_handler(e, processed_count, total_files, spreadsheet_id, created) ==
    \E lost \in StoreRaises :
        /\ redis' = IF lost THEN redis
                    ELSE [redis EXCEPT !.status =
                            setex(with_timestamps(
                                failed_status(e, processed_count, total_files, spreadsheet_id),
                                created))]
        /\ pc' = "failed"
        /\ ret' = [kind |-> "raise", detail |-> IF lost THEN BatchStr.connection_refused ELSE e]

\* The task starts: it reads created_at from the status the job was
\* submitted with, outside the try block, and writes the status
\* "processing" with started_at.
BatchParseTask ==
    /\ pc = "call"
    /\ call.fn = "batch_parse_task"
    /\ \E read_raises \in StoreRaises, raised \in StoreRaises :
         IF read_raises
         THEN /\ pc' = "failed"
              /\ ret' = [kind |-> "raise", detail |-> BatchStr.connection_refused]
              /\ UNCHANGED <<redis, loc>>
         ELSE IF raised
         THEN /\ except_handler(BatchStr.connection_refused, 0, 0, call.spreadsheet_id,
                                created_at)
              /\ loc' = task_locals(created_at)
         ELSE /\ redis' = [redis EXCEPT !.status =
                             setex(with_timestamps(
                                 processing_status(0, 0, call.spreadsheet_id), created_at))]
              /\ loc' = task_locals(created_at)
              /\ pc' = "list"
              /\ ret' = ret
    /\ UNCHANGED <<call, lib, tasks, sem, sheet, reader, frames>>

\* From the listing of the folder to the next write of the status: the
\* failure of a service, the status "completed" of an empty folder, or the
\* status "processing" with the number of files and the spreadsheet.
task_listed(listed, opened, raised) ==
    IF ~listed.ok
    THEN /\ except_handler(listed.text, 0, 0, call.spreadsheet_id, loc.created_at)
         /\ UNCHANGED <<tasks, sem, loc, sheet>>
    ELSE IF listed.files = <<>>
    THEN /\ IF raised
            THEN except_handler(BatchStr.connection_refused, 0, 0, call.spreadsheet_id,
                                loc.created_at)
            ELSE /\ redis' = [redis EXCEPT !.status =
                                setex(with_timestamps(
                                    completed_status(0, 0, call.spreadsheet_id, 0),
                                    loc.created_at))]
                 /\ pc' = "empty"
                 /\ ret' = ret
         /\ UNCHANGED <<tasks, sem, loc, sheet>>
    ELSE IF ~opened.ok
    THEN /\ except_handler(opened.text, 0, Len(listed.files), opened.id, loc.created_at)
         /\ sheet' = opened.rows
         /\ UNCHANGED <<tasks, sem, loc>>
    ELSE IF raised
    THEN /\ except_handler(BatchStr.connection_refused, 0, Len(listed.files), opened.id,
                           loc.created_at)
         /\ sheet' = opened.rows
         /\ UNCHANGED <<tasks, sem, loc>>
    ELSE /\ redis' = [redis EXCEPT !.status =
                        setex(processing_status(0, Len(listed.files), opened.id))]
         /\ pc' = "gather"
         /\ ret' = ret
         /\ tasks' = BatchTasks(Len(listed.files), 0)
         /\ sem' = MAX_CONCURRENT_REQUESTS
         /\ loc' = [loc EXCEPT !.drive_files = listed.files, !.spreadsheet_id = opened.id]
         /\ sheet' = opened.rows

TaskListed ==
    /\ pc = "list"
    /\ \E listing \in ServiceHttp, creating \in ServiceHttp, heading \in SheetHttp,
          raised \in StoreRaises :
           task_listed(list_drive_folder_files(call.folder, listing),
               open_spreadsheet(call.spreadsheet_id, sheet, create_spreadsheet(creating),
                   write_to_spreadsheet(<<>>, <<header_row>>, FALSE, heading)),
               raised)
    /\ UNCHANGED <<call, lib, reader, frames>>

\* An empty folder: the empty list of results is stored after the status
\* "completed", and the task returns; when the store raises, the except
\* branch writes the status "failed".
TaskEmpty ==
    /\ pc = "empty"
    /\ \E raised \in StoreRaises :
         IF raised
         THEN except_handler(BatchStr.connection_refused, 0, 0, call.spreadsheet_id,
                             loc.created_at)
         ELSE /\ redis' = [redis EXCEPT !.results = setex(<<>>)]
              /\ pc' = "done"
              /\ ret' = [kind |-> "return",
                         val |-> [status |-> "completed", results_count |-> 0]]
    /\ UNCHANGED <<call, lib, tasks, sem, loc, sheet, reader, frames>>

\* The rest of an iteration of the loop over the batches, from the write
\* of the rows to the write of the progress.
task_written(results, processed_count, total_files, raised) ==
    /\ loc' = [loc EXCEPT !.results = results, !.processed_count = processed_count]
    /\ IF raised
       THEN except_handler(BatchStr.connection_refused, processed_count, total_files,
                           loc.spreadsheet_id, loc.created_at)
       ELSE /\ redis' = [redis EXCEPT !.status =
                           setex(with_timestamps(
                               processing_status(processed_count, total_files,
                                                 loc.spreadsheet_id),
                               loc.created_at))]
            /\ pc' = "progress"
            /\ ret' = ret
    /\ tasks' = tasks

task_gathered(gathered, batch_results, written, raised) ==
    IF gathered.raised
    THEN /\ except_handler(gathered.msg, loc.processed_count, Len(loc.drive_files),
                           loc.spreadsheet_id, loc.created_at)
         /\ UNCHANGED <<tasks, loc, sheet>>
    ELSE /\ sheet' = written.rows
         /\ task_written(loc.results \o batch_results,
                         loc.processed_count + written.written,
                         Len(loc.drive_files), raised)

\* loop.run_until_complete(asyncio.gather(...)) returns.
TaskGathered ==
    /\ pc = "gather"
    /\ call.fn = "batch_parse_task"
    /\ \A k \in BatchFirst..BatchLast : tasks[k].st = "done"
    /\ \E http \in SheetHttp, raised \in StoreRaises :
           task_gathered(gather(tasks, BatchFirst, BatchLast),
               handle_exceptions(gather(tasks, BatchFirst, BatchLast).results,
                                 SubSeq(loc.drive_files, BatchFirst, BatchLast)),
               write_batch(sheet,
                   task_data_rows(handle_exceptions(gather(tasks, BatchFirst, BatchLast).results,
                                      SubSeq(loc.drive_files, BatchFirst, BatchLast))),
                   http),
               raised)
    /\ UNCHANGED <<call, lib, sem, reader, frames>>

\* After the write of the progress: a revoked task writes the status
\* "revoked" and returns, the loop goes on to the next batch, or, after the
\* last batch, the results are stored.
task_progress(is_aborted, raised) ==
    IF is_aborted
    THEN /\ IF raised
            THEN except_handler(BatchStr.connection_refused, loc.processed_count,
                                Len(loc.drive_files), loc.spreadsheet_id, loc.created_at)
            ELSE /\ redis' = [redis EXCEPT !.status =
                                setex(with_timestamps(
                                    revoked_status(loc.processed_count, Len(loc.drive_files),
                                                   loc.spreadsheet_id), loc.created_at))]
                 /\ pc' = "done"
                 /\ ret' = [kind |-> "return",
                            val |-> [status |-> "revoked", results_count |-> Len(loc.results)]]
         /\ UNCHANGED <<tasks, loc>>
    ELSE IF BatchLast < Len(loc.drive_files)
    THEN /\ loc' = [loc EXCEPT !.i = @ + SPREADSHEET_BATCH_SIZE]
         /\ tasks' = NextTasks
         /\ pc' = "gather"
         /\ UNCHANGED <<ret, redis>>
    ELSE /\ IF raised
            THEN except_handler(BatchStr.connection_refused, loc.processed_count,
                                Len(loc.drive_files), loc.spreadsheet_id, loc.created_at)
            ELSE /\ redis' = [redis EXCEPT !.results = setex(loc.results)]
                 /\ pc' = "store"
                 /\ ret' = ret
         /\ UNCHANGED <<tasks, loc>>

TaskProgress ==
    /\ pc = "progress"
    /\ \E is_aborted \in BOOLEAN, raised \in StoreRaises : task_progress(is_aborted, raised)
    /\ UNCHANGED <<call, lib, sem, sheet, reader, frames>>

\* The results are stored: the final status is written and the task
\* returns.
TaskStored ==
    /\ pc = "store"
    /\ \E raised \in StoreRaises :
         IF raised
         THEN except_handler(BatchStr.connection_refused, loc.processed_count,
                             Len(loc.drive_files), loc.spreadsheet_id, loc.created_at)
         ELSE /\ redis' = [redis EXCEPT !.status =
                             setex(with_timestamps(
                                 completed_status(loc.processed_count, Len(loc.drive_files),
                                                  loc.spreadsheet_id, Len(loc.results)),
                                 loc.created_at))]
              /\ pc' = "done"
              /\ ret' = [kind |-> "return",
                         val |-> [status |-> "completed", results_count |-> Len(loc.results)]]
    /\ UNCHANGED <<call, lib, tasks, sem, loc, sheet, reader, frames>>

(***************************************************************************)
(* The folders of the batch specification: up to MaxFiles files, no two    *)
(* alike, of the kinds below.                                              *)
(***************************************************************************)
\* A resume of a name, an e-mail address and a phone number.
GoodDocument ==
    [miner |-> Returned(ResumeText({1, 2, 3})), links |-> <<>>,
     ocr |-> Returned(<<>>), docx |-> Returned(ResumeText({1, 2, 3}))]

CorruptDocument ==
    [miner |-> Raised(Str.bad_file), links |-> <<>>,
     ocr |-> Raised(Str.bad_file), docx |-> Raised(Str.bad_file)]

Pdf == "application/pdf"

Docx == "application/vnd.openxmlformats-officedocument.wordprocessingml.document"

Downloads == [fails |-> 0, kind |-> "ok", status_code |-> 200, text |-> <<>>]

\* The download raises on each of the first fails attempts.
Fails(fails, kind, status_code, text) ==
    [fails |-> fails, kind |-> kind, status_code |-> status_code, text |-> text]

ListedFiles ==
    { [id |-> Some(<<"f", "1">>), name |-> Some(<<"a", ".", "p", "d", "f">>), mimeType |-> Pdf,
       download |-> Downloads, content |-> GoodDocument, fault |-> "none"],
      [id |-> Some(<<"f", "2">>), name |-> Some(<<"b", ".", "p", "d", "f">>), mimeType |-> Pdf,
       download |-> Downloads, content |-> CorruptDocument, fault |-> "none"],
      [id |-> None, name |-> Some(<<"c", ".", "p", "d", "f">>), mimeType |-> Pdf,
       download |-> Downloads, content |-> GoodDocument, fault |-> "none"],
      [id |-> Some(<<"f", "4">>), name |-> Some(<<"d", ".", "d", "o", "c", "x">>), mimeType |-> Docx,
       download |-> Fails(MAX_RETRIES, "HTTPStatusError", 404, BatchStr.Not_Found),
       content |-> GoodDocument, fault |-> "none"],
      [id |-> Some(<<"f", "5">>), name |-> Some(<<"e">>), mimeType |-> Docx,
       download |-> Fails(1, "HTTPStatusError", 503, BatchStr.Service_Unavailable),
       content |-> GoodDocument, fault |-> "none"],
      [id |-> Some(<<"f", "6">>), name |-> Some(<<"f", ".", "p", "d", "f">>), mimeType |-> Pdf,
       download |-> Fails(MAX_RETRIES, "TimeoutException", 0, BatchStr.timed_out),
       content |-> GoodDocument, fault |-> "none"],
      [id |-> Some(<<"f", "7">>), name |-> Some(<<"g", ".", "p", "d", "f">>), mimeType |-> Pdf,
       download |-> Downloads, content |-> GoodDocument, fault |-> "log_parse_result"] }

Folders ==
    UNION { {folder \in [1..n -> ListedFiles] :
                \A j, k \in 1..n : folder[j] = folder[k] => j = k} : n \in 0..MaxFiles }

\* The requests: the task gets as bearer_token the header of the request
\* that submitted the job.
BatchCalls ==
    [fn : {"batch_parse_resumes", "batch_parse_task"}, folder : Folders,
     spreadsheet_id : {None, Some(<<"s", "0">>)}, x_google_bearer : {Some(<<"t", "o", "k", "e", "n">>)}]
    \cup [fn : {"batch_parse_resumes"}, folder : {<<>>},
          spreadsheet_id : {None}, x_google_bearer : {None}]

\* The status submit_batch_parse_job writes before it queues the task.
pending_status(spreadsheet_id) ==
    [status |-> "pending", progress |-> 0, total_files |-> 0, processed_files |-> 0,
     spreadsheet_id |-> spreadsheet_id, created_at |-> <<"T", "0">>]

InitBatch ==
    /\ pc = "call"
    /\ call \in BatchCalls
    /\ ret = NoRet
    /\ lib = {}
    /\ tasks = <<>>
    /\ sem = 0
    /\ loc = <<>>
    /\ sheet \in IF Truthy(call.spreadsheet_id) THEN {<<>>, <<header_row>>} ELSE {<<>>}
    /\ redis = IF call.fn = "batch_parse_task"
               THEN [status |-> setex(pending_status(call.spreadsheet_id)), results |-> None,
                     flaky |-> FALSE]
               ELSE <<>>
    /\ reader = <<>>
    /\ frames = <<>>

NextBatch ==
    \/ BatchParseResumes
    \/ ResumesGathered
    \/ BatchParseTask
    \/ TaskListed
    \/ TaskEmpty
    \/ TaskGathered
    \/ TaskProgress
    \/ TaskStored
    \/ \E k \in 1..MaxFiles : Acquire(k)
    \/ \E k \in 1..MaxFiles : Download(k)
    \/ \E k \in 1..MaxFiles : Wake(k)

SpecBatch == InitBatch /\ [][NextBatch]_vars

(***************************************************************************)
(* The job endpoints of app/main.py: submit_batch_parse_job queues the     *)
(* task, get_job_status and get_job_results read the job's keys while the  *)
(* worker writes them.  One job, and one request of a client for it.       *)
(***************************************************************************)
job_id == <<"j", "1">>

JobStr ==
    [Job |-> <<"J", "o", "b", " ">>,
     not_found |-> <<" ", "n", "o", "t", " ", "f", "o", "u", "n", "d">>,
     not_completed |-> <<" ", "i", "s", " ", "n", "o", "t", " ", "c", "o", "m", "p", "l", "e", "t", "e", "d", " ", "y", "e", "t", ".", " ", "C", "u", "r", "r", "e", "n", "t", " ", "s", "t", "a", "t", "u", "s", ":", " ">>,
     Results_for_job |-> <<"R", "e", "s", "u", "l", "t", "s", " ", "f", "o", "r", " ", "j", "o", "b", " ">>,
     Error_retrieving_job_status |-> <<"E", "r", "r", "o", "r", " ", "r", "e", "t", "r", "i", "e", "v", "i", "n", "g", " ", "j", "o", "b", " ", "s", "t", "a", "t", "u", "s", ":", " ">>,
     Failed_to_submit_job |-> <<"F", "a", "i", "l", "e", "d", " ", "t", "o", " ", "s", "u", "b", "m", "i", "t", " ", "j", "o", "b", ":", " ">>,
     Field_required |-> <<"F", "i", "e", "l", "d", " ", "r", "e", "q", "u", "i", "r", "e", "d">>,
     out_of_range |-> <<"I", "n", "p", "u", "t", " ", "o", "u", "t", " ", "o", "f", " ", "r", "a", "n", "g", "e">>,
     submitted |-> <<"J", "o", "b", " ", "s", "u", "b", "m", "i", "t", "t", "e", "d", " ", "s", "u", "c", "c", "e", "s", "s", "f", "u", "l", "l", "y", ".", " ", "U", "s", "e", " ", "/", "b", "a", "t", "c", "h", "-", "p", "a", "r", "s", "e", "-", "j", "o", "b", "/", "{", "j", "o", "b", "_", "i", "d", "}", "/", "s", "t", "a", "t", "u", "s", " ", "t", "o", " ", "c", "h", "e", "c", "k", " ", "p", "r", "o", "g", "r", "e", "s", "s", ".">>,
     broker_down |-> <<"E", "r", "r", "o", "r", " ", "1", "1", "1", " ", "c", "o", "n", "n", "e", "c", "t", "i", "n", "g", " ", "t", "o", " ", "l", "o", "c", "a", "l", "h", "o", "s", "t", ":", "6", "3", "7", "9", ".", " ", "C", "o", "n", "n", "e", "c", "t", "i", "o", "n", " ", "r", "e", "f", "u", "s", "e", "d", ".">>,
     pending |-> <<"p", "e", "n", "d", "i", "n", "g">>,
     processing |-> <<"p", "r", "o", "c", "e", "s", "s", "i", "n", "g">>,
     completed |-> <<"c", "o", "m", "p", "l", "e", "t", "e", "d">>,
     failed |-> <<"f", "a", "i", "l", "e", "d">>,
     revoked |-> <<"r", "e", "v", "o", "k", "e", "d">>]

\* The status failed of a job that could not be queued.
submit_failed_status(e) ==
    [status |-> "failed", error |-> e, progress |-> 0, total_files |-> 0,
     processed_files |-> 0, created_at |-> <<"T", "0">>, completed_at |-> CompletedAt]

\* What FastAPI answers when an exception leaves the handler.
InternalServerError == HTTPException(500, <<"I", "n", "t", "e", "r", "n", "a", "l", " ", "S", "e", "r", "v", "e", "r", " ", "E", "r", "r", "o", "r">>)

JobSubmitResponse ==
    [kind |-> "response",
     val |-> [job_id |-> job_id, status |-> "pending", message |-> JobStr.submitted]]

\* A slip in the order: the task queued before the status pending is
\* written.
SubmitOrder_delay_first == <<"delay", "setex">>

\* The two calls of submit_batch_parse_job that reach outside the process,
\* in the order of the source.
SubmitOrder == <<"setex", "delay">>

\* The handler has made its calls, or has raised.
SubmitOver == Len(SubmitOrder) + 1

\* The frame of the handler after the call numbered at: it goes on to the
\* next call, or returns the response after the last.
submit_goes_on(at) ==
    /\ frames' = <<[at |-> at + 1]>>
    /\ ret' = IF at = Len(SubmitOrder) THEN JobSubmitResponse ELSE ret

\* The handler raises e: a task not yet queued never runs.
submit_raises(e) ==
    /\ frames' = <<[at |-> SubmitOver]>>
    /\ ret' = e
    /\ pc' = IF pc = "submit" THEN "failed" ELSE pc
    /\ call' = call

\* redis_client.setex of the status pending.  The handler starts with the
\* check of the X-Google-Bearer header, whichever call comes first.
SubmitSetex ==
    /\ frames # <<>>
    /\ frames[1].at \in DOMAIN SubmitOrder
    /\ SubmitOrder[frames[1].at] = "setex"
    /\ IF frames[1].at = 1 /\ ~Truthy(call.x_google_bearer)
       THEN /\ submit_raises(HTTPException(400, BatchStr.bearer_required))
            /\ redis' = redis
       ELSE \E raised \in StoreRaises :
              IF raised
              THEN /\ submit_raises(InternalServerError)
                   /\ redis' = redis
              ELSE /\ redis' = [redis EXCEPT !.status =
                                  setex(pending_status(call.spreadsheet_id))]
                   /\ submit_goes_on(frames[1].at)
                   /\ UNCHANGED <<pc, call>>
    /\ UNCHANGED <<lib, tasks, sem, loc, sheet, reader>>

\* batch_parse_task.delay: the task is queued with the arguments of the
\* request and a worker may start it, or delay raises and the status failed
\* is written.
SubmitDelay ==
    /\ frames # <<>>
    /\ frames[1].at \in DOMAIN SubmitOrder
    /\ SubmitOrder[frames[1].at] = "delay"
    /\ IF frames[1].at = 1 /\ ~Truthy(call.x_google_bearer)
       THEN /\ submit_raises(HTTPException(400, BatchStr.bearer_required))
            /\ redis' = redis
       ELSE \E queued \in BOOLEAN, raised \in StoreRaises :
              IF queued
              THEN /\ call' = [call EXCEPT !.fn = "batch_parse_task"]
                   /\ pc' = "call"
                   /\ submit_goes_on(frames[1].at)
                   /\ redis' = redis
              ELSE IF raised
              THEN /\ submit_raises(InternalServerError)
                   /\ redis' = redis
              ELSE /\ submit_raises(HTTPException(500, JobStr.Failed_to_submit_job
                                                        \o JobStr.broker_down))
                   /\ redis' = [redis EXCEPT !.status =
                                  setex(submit_failed_status(JobStr.broker_down))]
    /\ UNCHANGED <<lib, tasks, sem, loc, sheet, reader>>

SubmitBatchParseJob == SubmitSetex \/ SubmitDelay

\* The fields of schemas.JobStatus besides job_id, and those without a
\* default.
JobStatusFields ==
    {"status", "progress", "total_files", "processed_files", "spreadsheet_id",
     "results_count", "error"}

JobStatusRequired == {"status", "progress", "total_files", "processed_files"}

\* JobStatus(job_id=job_id, **status_dict): a required field that is
\* missing or a number out of its range raises ValidationError; a key that
\* is no field is ignored, and a missing optional field is None.
JobStatus(id, status_dict) ==
    IF ~(JobStatusRequired \subseteq DOMAIN status_dict)
    THEN [ok |-> FALSE, val |-> <<>>, err |-> JobStr.Field_required]
    ELSE IF ~(/\ status_dict.progress \in 0..100
              /\ status_dict.total_files >= 0
              /\ status_dict.processed_files >= 0)
    THEN [ok |-> FALSE, val |-> <<>>, err |-> JobStr.out_of_range]
    ELSE [ok |-> TRUE, err |-> <<>>,
          val |-> [f \in JobStatusFields \cup {"job_id"} |->
                      IF f = "job_id" THEN id
                      ELSE IF f \in DOMAIN status_dict THEN status_dict[f]
                      ELSE None]]

\* get_job_status, with the value read under job:{job_id}:status.
get_job_status(id, status_data) ==
    IF ~status_data.some
    THEN HTTPException(404, JobStr.Job \o id \o JobStr.not_found)
    ELSE IF JobStatus(id, status_data.val).ok
    THEN [kind |-> "response", val |-> JobStatus(id, status_data.val).val]
    ELSE HTTPException(500, JobStr.Error_retrieving_job_status
                             \o JobStatus(id, status_data.val).err)

\* str(status_dict.get('status'))
StatusText(status) == JobStr[status]

\* A check of the status that lets every job but a failed one through.
job_status_checked_failed_only(id, status_data) ==
    IF ~status_data.some
    THEN HTTPException(404, JobStr.Job \o id \o JobStr.not_found)
    ELSE IF status_data.val.status = "failed"
    THEN HTTPException(400, JobStr.Job \o id \o JobStr.not_completed
                             \o StatusText(status_data.val.status))
    ELSE NoRet

\* get_job_results up to its second read: the exception it raises on the
\* status, or none.
job_status_checked(id, status_data) ==
    IF ~status_data.some
    THEN HTTPException(404, JobStr.Job \o id \o JobStr.not_found)
    ELSE IF status_data.val.status # "completed"
    THEN HTTPException(400, JobStr.Job \o id \o JobStr.not_completed
                             \o StatusText(status_data.val.status))
    ELSE NoRet

\* get_job_results from its second read on, with the value read under
\* job:{job_id}:results: every entry becomes a ParsedCandidate.
job_results(id, results_data) ==
    IF ~results_data.some
    THEN HTTPException(404, JobStr.Results_for_job \o id \o JobStr.not_found)
    ELSE [kind |-> "response", val |-> results_data.val]

Idle == [pc |-> "idle", fn |-> "none", status_data |-> None, reply |-> NoRet]

GetJobStatus ==
    /\ reader.pc = "idle"
    /\ reader' = [pc |-> "done", fn |-> "get_job_status", status_data |-> redis.status,
                  reply |-> get_job_status(job_id, redis.status)]
    /\ UNCHANGED <<pc, call, ret, lib, tasks, sem, loc, sheet, redis, frames>>

\* The first read of get_job_results and the check of the status.
GetJobResults ==
    /\ reader.pc = "idle"
    /\ reader' = [pc |-> IF job_status_checked(job_id, redis.status) = NoRet
                         THEN "results" ELSE "done",
                  fn |-> "get_job_results", status_data |-> redis.status,
                  reply |-> job_status_checked(job_id, redis.status)]
    /\ UNCHANGED <<pc, call, ret, lib, tasks, sem, loc, sheet, redis, frames>>

\* The second read of get_job_results.
ResultsRead ==
    /\ reader.pc = "results"
    /\ reader' = [reader EXCEPT !.pc = "done",
                                !.reply = job_results(job_id, redis.results)]
    /\ UNCHANGED <<pc, call, ret, lib, tasks, sem, loc, sheet, redis, frames>>

\* The folders of the job specification: no file, one file, and three files
\* (two batches) of which one has no id and one is downloaded at the second
\* attempt.
JobFiles ==
    {f \in ListedFiles : f.fault = "none" /\ f.content = GoodDocument
                         /\ f.download.fails <= 1}

JobFolders == {folder \in Folders : \A k \in DOMAIN folder : folder[k] \in JobFiles}

JobCalls ==
    [fn : {"submit_batch_parse_job"}, folder : JobFolders,
     spreadsheet_id : {None, Some(<<"s", "0">>)}, x_google_bearer : {Some(<<"t", "o", "k", "e", "n">>)}]
    \cup [fn : {"submit_batch_parse_job"}, folder : {<<>>},
          spreadsheet_id : {None}, x_google_bearer : {None}]

InitJob ==
    /\ pc = "submit"
    /\ call \in JobCalls
    /\ ret = NoRet
    /\ lib = {}
    /\ tasks = <<>>
    /\ sem = 0
    /\ loc = <<>>
    /\ sheet = IF Truthy(call.spreadsheet_id) THEN <<header_row>> ELSE <<>>
    /\ redis = [status |-> None, results |-> None, flaky |-> FALSE]
    /\ reader = Idle
    /\ frames = <<[at |-> 1]>>

NextJob ==
    \/ SubmitBatchParseJob
    \/ BatchParseTask
    \/ TaskListed
    \/ TaskEmpty
    \/ TaskGathered
    \/ TaskProgress
    \/ TaskStored
    \/ \E k \in 1..MaxFiles : Acquire(k)
    \/ \E k \in 1..MaxFiles : Download(k)
    \/ \E k \in 1..MaxFiles : Wake(k)
    \/ GetJobStatus
    \/ GetJobResults
    \/ ResultsRead

SpecJob == InitJob /\ [][NextJob]_vars

(***************************************************************************)
(* Properties of a batch.                                                  *)
(***************************************************************************)
\* The batch has run to its end: the handler has returned its list, or the
\* task has stored its results and returned completed.
BatchCompleted ==
    /\ pc = "done"
    /\ call.fn = "batch_parse_task" => ret.val.status = "completed"

\* The entries the batch yields: the response, or the results of the job.
BatchEntries ==
    IF call.fn = "batch_parse_resumes" THEN ret.val ELSE redis.results.val

\* The download of a file is given up: it has no id, or a request for it
\* fails with an error that is not retried or on every attempt.
DownloadFails(f) ==
    \/ ~Truthy(f.id)
    \/ /\ f.download.fails > 0
       /\ \/ f.download.fails >= MAX_RETRIES
          \/ /\ f.download.kind \notin {"TimeoutException", "NetworkError"}
             /\ ~(/\ f.download.kind = "HTTPStatusError"
                  /\ f.download.status_code \in {429} \cup 500..599)

\* The document of a file cannot be read.
ParseFails(f) ==
    IF f.mimeType = Pdf THEN ~pdf_text_with_ocr_fallback(f.content).out.ok
    ELSE ~docx_text(f.content).ok

FileFails(f) == DownloadFails(f) \/ ParseFails(f) \/ f.fault # "none"

\* The entry of a file processed by itself.
EntryAlone(f) ==
    ParsedCandidate(f.id, f.name.val,
                    parse_resume_bytes(resume_filename(f), f.content, "none", {}).parsed,
                    <<>>)

FailedEntry(e) ==
    /\ e.name = None /\ e.email = None /\ e.phone = None
    /\ e.linkedin = None /\ e.github = None
    /\ e.confidence = F0_0
    /\ e.errors # <<>>

\* What a failed batch reports when a service, not a file, has failed.
ServiceFailures ==
    {BatchStr.bearer_required,
     BatchStr.Error_accessing_folder \o BatchStr.Forbidden,
     BatchStr.Unexpected_error \o BatchStr.connection_refused,
     BatchStr.Forbidden, BatchStr.connection_refused}

\* A step of the batch can be taken: the gather returns, a download or a
\* sleep ends, or a waiting coroutine gets the semaphore.
BatchCanGoOn ==
    \/ \A k \in BatchFirst..BatchLast : tasks[k].st = "done"
    \/ \E k \in BatchFirst..BatchLast : tasks[k].st \in {"download", "sleep"}
    \/ sem > 0 /\ \E k \in BatchFirst..BatchLast : tasks[k].st = "waiting"

\* C10: a batch that runs to its end yields one entry for each listed file,
\* in the order of the listing; the entry of a file that fails to download
\* or to parse has no field, confidence 0.0 and an error, and the entry of
\* any other file is what the file yields by itself.  No file makes the
\* batch fail, and no file keeps the batch from going on.
C10_OneEntryPerFile ==
    /\ BatchCompleted =>
         /\ Len(BatchEntries) = Len(call.folder)
         /\ \A k \in 1..Len(call.folder) :
              /\ BatchEntries[k].source_file = call.folder[k].name.val
              /\ IF FileFails(call.folder[k])
                 THEN FailedEntry(BatchEntries[k])
                 ELSE BatchEntries[k] = EntryAlone(call.folder[k])
    /\ pc = "failed" => ret.detail \in ServiceFailures
    /\ pc = "gather" => BatchCanGoOn

\* A batch of three files has run to its end: the first file failed, the
\* second raised out of its coroutine, and the third has its e-mail address.
C10_Witness ==
    /\ BatchCompleted
    /\ Len(call.folder) = 3
    /\ DownloadFails(call.folder[1])
    /\ call.folder[2].fault = "log_parse_result"
    /\ ~FileFails(call.folder[3])
    /\ BatchEntries[3].email = Some(<<"j", "a", "n", "e", "@", "e", "x", "a", "m", "p", "l", "e", ".", "c", "o", "m">>)
    /\ BatchEntries[3].confidence # F0_0

(***************************************************************************)
(* Properties of the job endpoints.                                        *)
(***************************************************************************)
\* The request of the client has been answered by fn.
Answered(fn) == reader.pc = "done" /\ reader.fn = fn

JobNotFound == HTTPException(404, JobStr.Job \o job_id \o JobStr.not_found)

\* C11: get_job_results returns a list of results only when the status it
\* read is "completed"; on the status pending, processing, failed or
\* revoked it answers with the error 400 and no results, and for a job
\* without a status it answers 404, job not found.
C11_ResultsOnlyWhenCompleted ==
    Answered("get_job_results") =>
        /\ reader.reply.kind = "response" =>
               reader.status_data.some /\ reader.status_data.val.status = "completed"
        /\ reader.status_data.some
             /\ reader.status_data.val.status \in {"pending", "processing", "failed", "revoked"}
             => /\ reader.reply.kind = "HTTPException"
                /\ reader.reply.status_code = 400
        /\ ~reader.status_data.some => reader.reply = JobNotFound

\* The client got the three results of a completed job, after the worker
\* had gone through the other statuses.
C11_Witness ==
    /\ Answered("get_job_results")
    /\ reader.reply.kind = "response"
    /\ Len(reader.reply.val) = 3
    /\ reader.status_data.val.status = "completed"

\* C12: whenever the status of a job reads "completed" its results are
\* stored, and get_job_results for a job it read as completed returns the
\* list of results, never 404.
C12_CompletedHasResults ==
    /\ redis.status.some /\ redis.status.val.status = "completed" => redis.results.some
    /\ Answered("get_job_results") /\ reader.status_data.some
         /\ reader.status_data.val.status = "completed"
         => reader.reply.kind = "response"

\* C13: for a job with a status record, whatever the status, get_job_status
\* returns a status with progress in 0..100, total_files and
\* processed_files; it fails only with 404 for a job without a record.
C13_StatusWellFormed ==
    Answered("get_job_status") =>
        IF reader.status_data.some
        THEN /\ reader.reply.kind = "response"
             /\ reader.reply.val.status = reader.status_data.val.status
             /\ reader.reply.val.progress \in 0..100
             /\ reader.reply.val.total_files \in Nat
             /\ reader.reply.val.processed_files \in Nat
        ELSE reader.reply = JobNotFound

(***************************************************************************)
(* guess_name by itself, on texts of a few leading blank lines and up to   *)
(* MaxNameLines lines that are names, headings, contact lines and lines    *)
(* that one of the filters skips.                                          *)
(***************************************************************************)
MaxNameLines == 3

NameLines ==
    { <<"J", "o", "h", "n", " ", "M", "i", "c", "h", "a", "e", "l", " ", "D", "o", "e">>,
      <<" ", " ", " ", "J", "a", "n", "e", " ", "D", "o", "e", " ", " ">>,
      <<"J", "A", "N", "E", " ", "S", "M", "I", "T", "H">>,
      <<"M", "a", "d", "o", "n", "n", "a">>,
      <<"E", "m", "a", "i", "l", ":", " ", "j", "o", "h", "n", "@", "e", "x", "a", "m", "p", "l", "e", ".", "c", "o", "m">>,
      <<"P", "h", "o", "n", "e", ":", " ", "1", "2", "3", "4", "5", "6", "7", "8", "9", "0">>,
      <<"s", "o", "f", "t", "w", "a", "r", "e", " ", "e", "n", "g", "i", "n", "e", "e", "r">>,
      <<"M", "a", "i", "l", " ", "M", "e", "@", "H", "o", "m", "e">>,
      <<"+", "9", "1", " ", "C", "a", "l", "l", " ", "M", "e">>,
      <<"9", " ", "L", "i", "v", "e", "s", " ", "L", "e", "f", "t">>,
      <<"A", " ", "B", " ", "C", " ", "D", " ", "E">>,
      <<"A", "a", "a", "a", "a", "a", "a", "a", "a", "a", "a", "a", "a", "a", "a", "a", "a", "a", "a", "a", " ", "B", "b", "b", "b", "b", "b", "b", "b", "b", "b", "b", "b", "b", "b", "b", "b", "b", "b", "b", "b", " ", "C", "c", "c", "c", "c", "c", "c", "c", "c", "c", "c", "c", "c", "c", "c">>,
      <<" ", " ">> }

\* The numbers of blank lines before the first line: none, and those that
\* put the lines that follow at the ends of the two scans.
BlankLinesBefore ==
    {0, NameScanLines - 2, NameScanLines - 1, NameScanLines,
     ContactScanLines - 2, ContactScanLines - 1}

NameBodies ==
    UNION { [1..n -> NameLines] : n \in 1..MaxNameLines }

NameTexts ==
    { [i \in 1..n |-> "\n"] \o Join(<<"\n">>, body) :
        n \in BlankLinesBefore, body \in NameBodies }

GuessName ==
    /\ pc = "call"
    /\ call.fn = "guess_name"
    /\ ret' = guess_name(call.text)
    /\ pc' = "done"
    /\ UNCHANGED <<call, lib, batch>>

InitName ==
    /\ pc = "call"
    /\ call \in [fn : {"guess_name"}, text : NameTexts]
    /\ ret = None
    /\ lib = {}
    /\ NoBatch

NextName ==
    \/ GuessName

SpecName == InitName /\ [][NextName]_vars

\* The lines of a text by the places of its line feeds: a line starts at
\* the start of the text and after each line feed, and ends before the next
\* line feed or at the end of the text.
LineFeeds(text) == {i \in 1..Len(text) : text[i] = "\n"}

LineStarts(feeds) == {1} \cup {i + 1 : i \in feeds}

LineEnd(text, feeds, s) ==
    IF \E i \in feeds : i >= s
    THEN (CHOOSE i \in feeds : i >= s /\ \A j \in feeds : j >= s => i <= j) - 1
    ELSE Len(text)

LineFrom(text, feeds, s) == SubSeq(text, s, LineEnd(text, feeds, s))

\* The number of the line that starts at s, counted from 1.
LineNumber(feeds, s) == 1 + Cardinality({i \in feeds : i < s})

HoldsKeyword(line) ==
    \E kw \in email_phone_keywords : Contains(StrLower(line), kw)

\* The starts of the first 30 lines, and of the lines right above a contact
\* line of the first 50.
FirstLines(feeds) == {s \in LineStarts(feeds) : LineNumber(feeds, s) <= 30}

AboveContact(text, feeds) ==
    {s \in LineStarts(feeds) :
        /\ LineEnd(text, feeds, s) < Len(text)
        /\ LineNumber(feeds, s) + 1 <= 50
        /\ HoldsKeyword(LineFrom(text, feeds, LineEnd(text, feeds, s) + 2))}

\* What the filters let through, of a trimmed line.
WordStarts(line) ==
    {i \in 1..Len(line) : line[i] \notin Space /\ (i = 1 \/ line[i - 1] \in Space)}

PassesFilters(line) ==
    /\ Len(line) > 0
    /\ \A i \in 1..Len(line) : line[i] # "@"
    /\ line[1] \notin Digit
    /\ ~(Len(line) > 1 /\ line[1] = "+" /\ line[2] \in Digit)
    /\ Len(line) <= 50
    /\ Cardinality(WordStarts(line)) \in 2..4
    /\ \A i \in WordStarts(line) : line[i] \in Upper

Passing(text, feeds, starts) ==
    {s \in starts : PassesFilters(Strip(LineFrom(text, feeds, s)))}

Least(places) == CHOOSE k \in places : \A j \in places : k <= j

\* The first line that passes, of the first 30 lines and then of the lines
\* above the contact lines.
FirstPassing(text, feeds, first, above) ==
    IF first # {} THEN Some(Strip(LineFrom(text, feeds, Least(first))))
    ELSE IF above # {} THEN Some(Strip(LineFrom(text, feeds, Least(above))))
    ELSE None

NonBlank(text, feeds) == {s \in LineStarts(feeds) : Strip(LineFrom(text, feeds, s)) # <<>>}

\* The first non-blank line is one of the first 30, it is the name, and a
\* contact line follows it.
NameThenContact(text, feeds, nonblank, name) ==
    /\ nonblank # {}
    /\ Least(nonblank) \in FirstLines(feeds)
    /\ Strip(LineFrom(text, feeds, Least(nonblank))) = name
    /\ Least(nonblank) \in AboveContact(text, feeds)

JohnMichaelDoe == <<"J", "o", "h", "n", " ", "M", "i", "c", "h", "a", "e", "l", " ", "D", "o", "e">>

\* C14: guess_name returns, trimmed, the first line that passes all filters
\* among the first 30 lines or, when none of those passes, among the lines
\* right above a contact line in their order; it returns None only when no
\* line of the pool passes.  In particular a first non-blank line "John
\* Michael Doe" among the first 30 lines, followed by a contact line, is
\* returned as it is.
C14_FirstPassingLine ==
    pc = "done" /\ call.fn = "guess_name" =>
        /\ ret = FirstPassing(call.text, LineFeeds(call.text),
                     Passing(call.text, LineFeeds(call.text),
                             FirstLines(LineFeeds(call.text))),
                     Passing(call.text, LineFeeds(call.text),
                             AboveContact(call.text, LineFeeds(call.text))))
        /\ NameThenContact(call.text, LineFeeds(call.text),
                           NonBlank(call.text, LineFeeds(call.text)), JohnMichaelDoe)
             => ret = Some(JohnMichaelDoe)

\* The name is found above a contact line only: it stands on line 31, after
\* blank lines, and is returned without the blanks around it.
C14_Witness ==
    /\ pc = "done" /\ call.fn = "guess_name"
    /\ Passing(call.text, LineFeeds(call.text), FirstLines(LineFeeds(call.text))) = {}
    /\ Passing(call.text, LineFeeds(call.text),
               AboveContact(call.text, LineFeeds(call.text))) = {NameScanLines + 1}
    /\ ret = Some(<<"J", "a", "n", "e", " ", "D", "o", "e">>)

\* C15: guess_name never returns a name in capitals and never a line of one
\* word: what it returns has 2 to 4 words, each a capital followed by small
\* letters.
C15_TitleCaseOnly ==
    pc = "done" /\ call.fn = "guess_name" /\ ret.some =>
        /\ Cardinality(WordStarts(ret.val)) \in 2..4
        /\ \A i \in WordStarts(ret.val) :
             /\ ret.val[i] \in Upper
             /\ i < Len(ret.val) /\ ret.val[i + 1] \in Lower
             /\ \A j \in (i + 1)..Len(ret.val) :
                    (\A h \in i..j : ret.val[h] \notin Space) => ret.val[j] \in Lower

(***************************************************************************)
(* extract_linkedin and extract_github on profiles written without a       *)
(* scheme, in running text or after a label, and on texts that name the    *)
(* site without the address of a profile.                                  *)
(***************************************************************************)
BareLeads ==
    { <<>>,
      <<"V", "i", "s", "i", "t", " ", "m", "y", " ", "p", "r", "o", "f", "i", "l", "e", " ", "a", "t", " ">>,
      <<"L", "i", "n", "k", "e", "d", "I", "n", ":", " ">>,
      <<"G", "i", "t", "H", "u", "b", ":", " ">>,
      <<"L", "i", "n", "k", "e", "d", " ", "I", "n", ":">>,
      <<"J", "o", "h", "n", " ", "D", "o", "e", "\n", "L", "i", "n", "k", "e", "d", "I", "n", ":", " ">>,
      <<"J", "o", "h", "n", " ", "D", "o", "e", "\n", "G", "i", "t", "H", "u", "b", ":", "\n">>,
      <<"w", "w", "w", ".">> }

BareUsers ==
    { <<"j", "o", "h", "n", "d", "o", "e">>,
      <<"j", "a", "n", "e", "-", "s", "m", "i", "t", "h">>,
      <<"J">>,
      <<"a", "1", "-", "B", "2">>,
      <<"x", "-", "y", "-", "y", "-", "y", "-", "y", "-", "y", "-", "y", "-", "y", "-", "y", "-", "y", "-", "y", "-", "y", "-", "y", "-", "y", "-", "y", "-", "y", "-", "y", "-", "y", "-", "y", "-", "y">> }

BareTails ==
    { <<>>,
      <<"\n">>,
      <<" ">>,
      <<"/">>,
      <<".">>,
      <<"/", "r", "e", "p", "o">>,
      <<"?", "x", "=", "1">>,
      <<")">>,
      <<"\n", "E", "m", "a", "i", "l", ":", " ", "a", "@", "b", ".", "c", "o">> }

BareTexts(host) ==
    { lead \o host \o user \o tail :
        lead \in BareLeads, user \in BareUsers, tail \in BareTails }

\* Texts without the address of a profile on either site.
NoProfileTexts ==
    { <<>>,
      <<"N", "o", " ", "L", "i", "n", "k", "e", "d", "I", "n", " ", "h", "e", "r", "e">>,
      <<"N", "o", " ", "G", "i", "t", "H", "u", "b", " ", "h", "e", "r", "e">>,
      <<"L", "i", "n", "k", "e", "d", "I", "n", ":", " ", "j", "a", "n", "e">>,
      <<"G", "i", "t", "H", "u", "b", ":", " ", "j", "a", "n", "e">>,
      <<"l", "i", "n", "k", "e", "d", "i", "n", ".", "c", "o", "m">>,
      <<"g", "i", "t", "h", "u", "b", ".", "c", "o", "m">>,
      <<"l", "i", "n", "k", "e", "d", "i", "n", " ", "c", "o", "m", "/", "i", "n", "/", "j", "a", "n", "e">>,
      <<"l", "i", "n", "k", "e", "d", "i", "n", "X", "c", "o", "m", "/", "i", "n", "/", "j", "a", "n", "e">>,
      <<"g", "i", "t", "h", "u", "b", "X", "c", "o", "m", "/", "j", "a", "n", "e">>,
      <<"l", "i", "n", "k", "e", "d", "i", "n", ".", "c", "o", "/", "i", "n", "/", "j", "a", "n", "e">>,
      <<"g", "i", "t", "h", "u", "b", ".", "i", "o", "/", "j", "a", "n", "e">>,
      <<"h", "t", "t", "p", "s", ":", "/", "/", "w", "w", "w", ".", "l", "i", "n", "k", "e", "d", "i", "n", ".", "o", "r", "g", "/", "i", "n", "/", "j", "a", "n", "e">>,
      <<"L", "i", "n", "k", "e", "d", "I", "n", ":", " ", "h", "t", "t", "p", "s", ":", "/", "/", "e", "x", "a", "m", "p", "l", "e", ".", "c", "o", "m", "/", "i", "n", "/", "j", "a", "n", "e">>,
      <<"G", "i", "t", "H", "u", "b", ":", " ", "h", "t", "t", "p", "s", ":", "/", "/", "e", "x", "a", "m", "p", "l", "e", ".", "c", "o", "m", "/", "j", "a", "n", "e">>,
      <<"h", "r", "e", "f", "=", "\"", "h", "t", "t", "p", "s", ":", "/", "/", "l", "i", "n", "k", "e", "d", "i", "n", ".", "c", "o", "m", "\"">>,
      <<"h", "r", "e", "f", "=", "\"", "h", "t", "t", "p", "s", ":", "/", "/", "g", "i", "t", "h", "u", "b", ".", "c", "o", "m", "\"">>,
      <<"L", "i", "n", "k", "e", "d", " ", "I", "n", ":", " ", "i", "n", "/", "j", "a", "n", "e">>,
      <<"G", "i", "t", " ", "H", "u", "b", ":", " ", "/", "j", "a", "n", "e">> }

ProfileTexts ==
    BareTexts(Str.linkedin_com_in) \cup BareTexts(Str.github_com) \cup NoProfileTexts

InitBare ==
    /\ pc = "call"
    /\ call \in [fn : {"extract_linkedin", "extract_github"}, text : ProfileTexts]
    /\ ret = None
    /\ lib = {}
    /\ NoBatch

NextBare ==
    \/ ExtractLinkedin
    \/ ExtractGithub

SpecBare == InitBare /\ [][NextBare]_vars

\* A user name of LinkedIn: letters, digits and hyphens.
LinkedinUser(u) ==
    /\ Len(u) > 0
    /\ \A i \in 1..Len(u) : u[i] \in Alnum \cup {"-"}

\* A user name of GitHub: at most 39 letters, digits and single hyphens,
\* with no hyphen at either end.
GithubUser(u) ==
    /\ Len(u) \in 1..39
    /\ \A i \in 1..Len(u) : u[i] \in Alnum \cup {"-"}
    /\ u[1] # "-" /\ u[Len(u)] # "-"
    /\ \A i \in 1..(Len(u) - 1) : ~(u[i] = "-" /\ u[i + 1] = "-")

\* The text of the call is lead, host, u and tail.
WrittenBare(host, u) ==
    \E lead \in BareLeads, tail \in BareTails : call.text = lead \o host \o u \o tail

\* sub in s, without regard to case
ContainsCI(s, sub) == Contains(StrLower(s), StrLower(sub))

\* C16: on a text whose only reference to LinkedIn is linkedin.com/in/u
\* without a scheme, u a valid user name, extract_linkedin returns
\* https://www.linkedin.com/in/u, and extract_github returns
\* https://github.com/u for github.com/u, in running text and after the
\* label "LinkedIn:" or "GitHub:".
C16_BareProfileGivesUrl ==
    pc = "done" =>
        \A u \in BareUsers :
            /\ call.fn = "extract_linkedin" /\ LinkedinUser(u)
                 /\ WrittenBare(Str.linkedin_com_in, u)
                 => ret = Some(<<"h", "t", "t", "p", "s", ":", "/", "/", "w", "w", "w", ".", "l", "i", "n", "k", "e", "d", "i", "n", ".", "c", "o", "m", "/", "i", "n", "/">> \o u)
            /\ call.fn = "extract_github" /\ GithubUser(u)
                 /\ WrittenBare(Str.github_com, u)
                 => ret = Some(<<"h", "t", "t", "p", "s", ":", "/", "/", "g", "i", "t", "h", "u", "b", ".", "c", "o", "m", "/">> \o u)

\* The user name with a hyphen, after the label and on a line of its own.
C16_Witness ==
    /\ pc = "done"
    /\ call.fn = "extract_github"
    /\ call.text = <<"J", "o", "h", "n", " ", "D", "o", "e", "\n", "G", "i", "t", "H", "u", "b", ":", "\n", "g", "i", "t", "h", "u", "b", ".", "c", "o", "m", "/", "j", "a", "n", "e", "-", "s", "m", "i", "t", "h", "\n", "E", "m", "a", "i", "l", ":", " ", "a", "@", "b", ".", "c", "o">>
    /\ ret = Some(<<"h", "t", "t", "p", "s", ":", "/", "/", "g", "i", "t", "h", "u", "b", ".", "c", "o", "m", "/", "j", "a", "n", "e", "-", "s", "m", "i", "t", "h">>)

\* C17: extract_linkedin returns None for every text that does not contain
\* "linkedin.com/" in either case, and extract_github returns None for
\* every text that does not contain "github.com/"; neither raises.
C17_NoAddressGivesNone ==
    pc = "done" =>
        /\ call.fn = "extract_linkedin" /\ ~ContainsCI(call.text, <<"l", "i", "n", "k", "e", "d", "i", "n", ".", "c", "o", "m", "/">>)
             => ret = None
        /\ call.fn = "extract_github" /\ ~ContainsCI(call.text, <<"g", "i", "t", "h", "u", "b", ".", "c", "o", "m", "/">>)
             => ret = None

\* The word LinkedIn before the address of another site.
C17_Witness ==
    /\ pc = "done"
    /\ call.fn = "extract_linkedin"
    /\ call.text = <<"L", "i", "n", "k", "e", "d", "I", "n", ":", " ", "h", "t", "t", "p", "s", ":", "/", "/", "e", "x", "a", "m", "p", "l", "e", ".", "c", "o", "m", "/", "i", "n", "/", "j", "a", "n", "e">>
    /\ ret = None

(***************************************************************************)
(* extract_email on texts with one address, or none: the address in        *)
(* running text or after a keyword, with "mail" in its local part or its   *)
(* domain.                                                                 *)
(***************************************************************************)
AddressLeads ==
    { <<>>,
      <<"C", "o", "n", "t", "a", "c", "t", " ", "m", "e", " ", "a", "t", " ">>,
      <<"E", "m", "a", "i", "l", ":", " ">>,
      <<"E", "-", "m", "a", "i", "l", ":", " ">>,
      <<"x", " ">> }

OneAddresses ==
    { <<"j", "o", "h", "n", ".", "d", "o", "e", "@", "e", "x", "a", "m", "p", "l", "e", ".", "c", "o", "m">>,
      <<"j", "a", "n", "e", ".", "s", "m", "i", "t", "h", "@", "c", "o", "m", "p", "a", "n", "y", ".", "c", "o", ".", "u", "k">>,
      <<"J", "o", "h", "n", "@", "G", "m", "a", "i", "l", ".", "c", "o", "m">>,
      <<"m", "a", "i", "l", "b", "o", "x", "@", "e", "x", "a", "m", "p", "l", "e", ".", "c", "o", "m">>,
      <<"e", "m", "a", "i", "l", "m", "e", "@", "x", ".", "i", "o">>,
      <<"m", "a", "i", "l", ".", "j", "o", "h", "n", "@", "e", "x", "a", "m", "p", "l", "e", ".", "c", "o", "m">>,
      <<"a", ".", "m", "a", "i", "l", "@", "b", ".", "c", "o">>,
      <<"j", "@", "m", "a", "i", "l", ".", "e", "x", "a", "m", "p", "l", "e", ".", "c", "o", "m">> }

AddressTails ==
    { <<>>,
      <<" ", "f", "o", "r", " ", "m", "o", "r", "e", " ", "i", "n", "f", "o">>,
      <<"\n", "P", "h", "o", "n", "e", ":", " ", "1">>,
      <<".">> }

NoAddressTexts ==
    { <<>>,
      <<"N", "o", " ", "e", "m", "a", "i", "l", " ", "h", "e", "r", "e">>,
      <<"m", "a", "i", "l", " ", "m", "e">>,
      <<"j", "o", "h", "n", " ", "a", "t", " ", "e", "x", "a", "m", "p", "l", "e", ".", "c", "o", "m">>,
      <<"a", "@", "b">>,
      <<"@", "e", "x", "a", "m", "p", "l", "e", ".", "c", "o", "m">>,
      <<"E", "m", "a", "i", "l", ":">> }

AddressTexts ==
    { lead \o address \o tail :
        lead \in AddressLeads, address \in OneAddresses, tail \in AddressTails }
    \cup NoAddressTexts

InitAddress ==
    /\ pc = "call"
    /\ call \in [fn : {"extract_email"}, text : AddressTexts]
    /\ ret = None
    /\ lib = {}
    /\ NoBatch

NextAddress ==
    \/ ExtractEmail

SpecAddress == InitAddress /\ [][NextAddress]_vars

\* C18: on a text with exactly one address extract_email returns the whole
\* address in lower case, never a part of it, wherever the address stands
\* and whatever it spells; on a text without an address it returns None.
C18_WholeAddress ==
    pc = "done" /\ call.fn = "extract_email" =>
        /\ \A address \in OneAddresses :
               (\E lead \in AddressLeads, tail \in AddressTails :
                    call.text = lead \o address \o tail)
               => ret = Some(StrLower(address))
        /\ call.text \in NoAddressTexts => ret = None

(***************************************************************************)
(* Properties of the coroutines of a batch.                                *)
(***************************************************************************)
\* The files between the start of their download and the return of their
\* entry: a request is out, or the coroutine sleeps before it tries again.
InFlight == {k \in DOMAIN tasks : tasks[k].st \in {"download", "sleep"}}

\* C19: at every moment of a batch, in the handler and in the task, at most
\* MAX_CONCURRENT_REQUESTS files are between the start of their download and
\* the return of their entry, the files that wait between two attempts
\* included.
C19_AtMostMaxInFlight ==
    Cardinality(InFlight) <= MAX_CONCURRENT_REQUESTS

\* In the task, a file sleeps between two attempts and holds the semaphore,
\* while another file of the batch waits for it.
C19_Witness ==
    /\ call.fn = "batch_parse_task"
    /\ Cardinality(InFlight) = MAX_CONCURRENT_REQUESTS
    /\ \E k \in DOMAIN tasks : tasks[k].st = "sleep"
    /\ \E k \in DOMAIN tasks : tasks[k].st = "waiting"
    /\ sem = 0

(***************************************************************************)
(* The retry loop by itself: batches of up to two files whose download     *)
(* fails with a status or an exception, once, twice or on every attempt.   *)
(***************************************************************************)
RetryFile(id, download) ==
    [id |-> Some(id), name |-> Some(id \o <<".", "p", "d", "f">>), mimeType |-> Pdf,
     download |-> download, content |-> GoodDocument, fault |-> "none"]

RetryFiles ==
    { RetryFile(<<"r", "0">>, Downloads),
      RetryFile(<<"r", "1">>, Fails(1, "HTTPStatusError", 429, <<"T", "o", "o", " ", "M", "a", "n", "y", " ", "R", "e", "q", "u", "e", "s", "t", "s">>)),
      RetryFile(<<"r", "2">>, Fails(MAX_RETRIES, "HTTPStatusError", 500, <<"I", "n", "t", "e", "r", "n", "a", "l", " ", "S", "e", "r", "v", "e", "r", " ", "E", "r", "r", "o", "r">>)),
      RetryFile(<<"r", "3">>, Fails(2, "HTTPStatusError", 599, BatchStr.timed_out)),
      RetryFile(<<"r", "4">>, Fails(MAX_RETRIES, "HTTPStatusError", 404, BatchStr.Not_Found)),
      RetryFile(<<"r", "5">>, Fails(1, "HTTPStatusError", 403, BatchStr.Forbidden)),
      RetryFile(<<"r", "6">>, Fails(1, "TimeoutException", 0, BatchStr.timed_out)),
      RetryFile(<<"r", "7">>, Fails(MAX_RETRIES, "NetworkError", 0, BatchStr.connection_refused)),
      RetryFile(<<"r", "8">>, Fails(1, "DecodingError", 0, <<"i", "n", "v", "a", "l", "i", "d", " ", "g", "z", "i", "p", " ", "d", "a", "t", "a">>)) }

MaxRetryFiles == 2

RetryFolders ==
    UNION { {folder \in [1..n -> RetryFiles] :
                \A j, k \in 1..n : folder[j] = folder[k] => j = k} : n \in 0..MaxRetryFiles }

InitRetry ==
    /\ pc = "call"
    /\ call \in [fn : {"batch_parse_resumes", "batch_parse_task"}, folder : RetryFolders,
                 spreadsheet_id : {Some(<<"s", "0">>)}, x_google_bearer : {Some(<<"t", "o", "k", "e", "n">>)}]
    /\ ret = NoRet
    /\ lib = {}
    /\ tasks = <<>>
    /\ sem = 0
    /\ loc = <<>>
    /\ sheet = <<header_row>>
    /\ redis = IF call.fn = "batch_parse_task"
               THEN [status |-> setex(pending_status(call.spreadsheet_id)), results |-> None,
                     flaky |-> FALSE]
               ELSE <<>>
    /\ reader = <<>>
    /\ frames = <<>>

SpecRetry == InitRetry /\ [][NextBatch]_vars

\* The attempt a of the download of f, counted from 0, fails.
AttemptFails(f, a) == a < f.download.fails

\* It fails with the status 429 or 5xx, a timeout or a network error.
FailsForNow(f, a) ==
    /\ AttemptFails(f, a)
    /\ \/ /\ f.download.kind = "HTTPStatusError"
          /\ f.download.status_code = 429 \/ f.download.status_code \in 500..599
       \/ f.download.kind \in {"TimeoutException", "NetworkError"}

\* The downloads of file k begun so far.
Attempts(k) ==
    IF tasks[k].st \in {"created", "waiting"} \/ ~Truthy(loc.drive_files[k].id) THEN 0
    ELSE tasks[k].attempt + 1

\* The coroutine of file k has returned an entry without a field and with
\* an error.
ErrorResult(k) ==
    /\ tasks[k].st = "done"
    /\ ~tasks[k].out.raised
    /\ FailedEntry(tasks[k].out.val)

\* C20: the download of a file is attempted at most MAX_RETRIES times; an
\* attempt after the first is made only after the attempt before it failed
\* with the status 429 or 5xx, a timeout or a network error, and after a
\* sleep of RETRY_DELAY * 2^attempt; a download that fails in another way
\* ends the file after that one attempt, with an error entry.
C20_BoundedRetries ==
    \A k \in DOMAIN tasks :
        /\ Attempts(k) <= MAX_RETRIES
        /\ Len(tasks[k].sleeps) =
               IF tasks[k].st = "sleep" THEN Attempts(k)
               ELSE IF Attempts(k) = 0 THEN 0 ELSE Attempts(k) - 1
        /\ \A a \in 1..Len(tasks[k].sleeps) :
               /\ FailsForNow(loc.drive_files[k], a - 1)
               /\ tasks[k].sleeps[a] = RETRY_DELAY * (2 ^ (a - 1))
        /\ \A a \in 0..(Attempts(k) - 1) :
               /\ AttemptFails(loc.drive_files[k], a)
               /\ ~FailsForNow(loc.drive_files[k], a)
               /\ ~(tasks[k].st = "download" /\ tasks[k].attempt = a)
               => /\ Attempts(k) = a + 1
                  /\ ErrorResult(k)
        /\ tasks[k].st = "done" /\ Attempts(k) > 0
             /\ AttemptFails(loc.drive_files[k], Attempts(k) - 1)
             => ErrorResult(k)

\* A file whose download fails with a network error on every attempt: three
\* attempts, after sleeps of one and of two delays, and an error entry.
C20_Witness ==
    \E k \in DOMAIN tasks :
        /\ loc.drive_files[k].download.kind = "NetworkError"
        /\ Attempts(k) = MAX_RETRIES
        /\ Len(tasks[k].sleeps) = MAX_RETRIES - 1
        /\ Len(tasks[k].sleeps) >= 2
        /\ tasks[k].sleeps[2] = 2 * RETRY_DELAY
        /\ ErrorResult(k)

(***************************************************************************)
(* Properties of the job status.                                           *)
(***************************************************************************)
\* The status of the job as the worker last wrote it.
JobStatusWritten == call.fn = "batch_parse_task" /\ redis.status.some

\* C21: processed_files of a job's status is the number of files whose
\* processing has finished: after each batch it is the number of the entries
\* gathered so far, and in a completed job it is total_files.
C21_ProcessedFilesCountsFinished ==
    JobStatusWritten =>
        /\ pc = "progress" => redis.status.val.processed_files = Len(loc.results)
        /\ redis.status.val.status = "completed" =>
               redis.status.val.processed_files = redis.status.val.total_files

(***************************************************************************)
(* The extraction of parse_resume_bytes, run by several callers at once:   *)
(* extract_fields, guess_name and score_confidence on the caller's own     *)
(* text.  Every name these functions assign is a local of the call: the    *)
(* module parsing.py holds no variable of its own.  A frame is the locals  *)
(* of one caller, at the call it is to make next.                          *)
(***************************************************************************)
NumCallers == 2

PipelineTexts ==
    { ResumeText(1..Len(ResumeLines)), ResumeText({1, 3}), ResumeText({}) }

PipelineOrder ==
    <<"extract_email", "normalize_phone", "extract_linkedin", "extract_github",
      "guess_name", "score_confidence", "done">>

NewFrame(text, ocr_used) ==
    [text |-> text, ocr_used |-> ocr_used, at |-> 1,
     name |-> None, email |-> None, phone |-> None, linkedin |-> None, github |-> None,
     confidence |-> F0_0]

\* A module in which text is a module-level name, bound by the first caller.
pipeline_step_global_text(c, f) ==
    LET at == PipelineOrder[f.at]
        g  == [f EXCEPT !.at = @ + 1]
        text == frames[1].text
    IN  IF at = "extract_email" THEN [g EXCEPT !.email = extract_email(text)]
        ELSE IF at = "normalize_phone" THEN [g EXCEPT !.phone = normalize_phone(text, lib)]
        ELSE IF at = "extract_linkedin" THEN [g EXCEPT !.linkedin = extract_linkedin(text)]
        ELSE IF at = "extract_github" THEN [g EXCEPT !.github = extract_github(text)]
        ELSE IF at = "guess_name" THEN [g EXCEPT !.name = guess_name(text)]
        ELSE [g EXCEPT !.confidence =
                 score_confidence(f.name, f.email, f.phone, f.linkedin, f.github, f.ocr_used)]

\* The next call of caller c, whose frame is f.
pipeline_step(c, f) ==
    LET at == PipelineOrder[f.at]
        g  == [f EXCEPT !.at = @ + 1]
    IN  IF at = "extract_email" THEN [g EXCEPT !.email = extract_email(f.text)]
        ELSE IF at = "normalize_phone" THEN [g EXCEPT !.phone = normalize_phone(f.text, lib)]
        ELSE IF at = "extract_linkedin" THEN [g EXCEPT !.linkedin = extract_linkedin(f.text)]
        ELSE IF at = "extract_github" THEN [g EXCEPT !.github = extract_github(f.text)]
        ELSE IF at = "guess_name" THEN [g EXCEPT !.name = guess_name(f.text)]
        ELSE [g EXCEPT !.confidence =
                 score_confidence(f.name, f.email, f.phone, f.linkedin, f.github, f.ocr_used)]

PipelineStep ==
    /\ pc = "callers"
    /\ \E c \in DOMAIN frames :
           /\ PipelineOrder[frames[c].at] # "done"
           /\ frames' = [frames EXCEPT ![c] = pipeline_step(c, frames[c])]
    /\ UNCHANGED <<pc, call, ret, lib, tasks, sem, loc, sheet, redis, reader>>

InitPipeline ==
    /\ pc = "callers"
    /\ call = <<>>
    /\ ret = NoRet
    /\ lib = {}
    /\ tasks = <<>>
    /\ sem = 0
    /\ loc = <<>>
    /\ sheet = <<>>
    /\ redis = <<>>
    /\ reader = <<>>
    /\ frames \in [1..NumCallers -> {NewFrame(t, o) : t \in PipelineTexts, o \in BOOLEAN}]

NextPipeline ==
    \/ PipelineStep

SpecPipeline == InitPipeline /\ [][NextPipeline]_vars

\* What one caller gets when it runs alone.
RunAlone(text, ocr_used) ==
    LET name  == guess_name(text)
        email == extract_email(text)
        phone == normalize_phone(text, lib)
        linkedin == extract_linkedin(text)
        github == extract_github(text)
    IN  [name |-> name, email |-> email, phone |-> phone, linkedin |-> linkedin,
         github |-> github,
         confidence |-> score_confidence(name, email, phone, linkedin, github, ocr_used)]

PipelineDone(c) == PipelineOrder[frames[c].at] = "done"

PipelineResult(f) ==
    [name |-> f.name, email |-> f.email, phone |-> f.phone, linkedin |-> f.linkedin,
     github |-> f.github, confidence |-> f.confidence]

ScoreWith(ocr_used) ==
    IF call.ocr_used = ocr_used THEN ret.val
    ELSE score_confidence(call.name, call.email, call.phone, call.linkedin,
                          call.github, ocr_used)

\* 2^-52, the distance from 1.0 to the next double.
OneUlp == F(0, 32)

\* |a - b| <= eps, for a, b >= 0
FWithin(a, b, eps) == MagLessEq(FSub(a, b), eps)

\* C23, as stated: for every combination of present and absent fields the
\* score with ocr_used true is the score with ocr_used false minus 0.05.
C23_OcrMinusBonus ==
    ScoreDone => ScoreWith(TRUE) = FSub(ScoreWith(FALSE), F0_05)

\* C23, amended: for every combination of present and absent fields the
\* score with ocr_used false is the score with ocr_used true plus 0.05,
\* clamped to 1.0, in binary64; the score with ocr_used true is within
\* 2^-52 of the score with ocr_used false minus 0.05, not always equal to it.
C23_OcrRemovesBonusOnly ==
    ScoreDone =>
        /\ ScoreWith(FALSE) = FMin(FAdd(ScoreWith(TRUE), F0_05), F1_0)
        /\ FWithin(ScoreWith(TRUE), FSub(ScoreWith(FALSE), F0_05), OneUlp)

\* LinkedIn alone: 0.1 with OCR and 0.15000000000000002 without, which less
\* 0.05 is 0.10000000000000002.
C23_Witness ==
    /\ ScoreDone /\ call.ocr_used
    /\ Present(call.linkedin)
    /\ ~Present(call.name) /\ ~Present(call.email) /\ ~Present(call.phone)
    /\ ~Present(call.github)
    /\ ret.val = F0_1
    /\ ScoreWith(FALSE) = F(40265318, 214748368)
    /\ FSub(ScoreWith(FALSE), F0_05) # F0_1

\* C24, as stated: a full match with OCR used yields 0.90.
C24_FullMatchOcrNineTenths ==
    ScoreDone /\ call.ocr_used /\ AllPresent => ret.val = F(241591910, 214748368)

\* C24, amended: a full match with OCR used yields 0.4 + 0.25 + 0.15 + 0.1 +
\* 0.05, which is 0.9500000000000001 in binary64; 0.9 is the score with OCR
\* of name, email, phone and linkedin without github.
C24_FullMatchOcr ==
    ScoreDone /\ call.ocr_used =>
        /\ AllPresent => ret.val = F(255013683, 107374192)
        /\ Present(call.name) /\ Present(call.email) /\ Present(call.phone)
             /\ Present(call.linkedin) /\ ~Present(call.github)
             => ret.val = F(241591910, 214748368)

\* All five fields found in a text read by OCR.
C24_Witness ==
    /\ ScoreDone /\ call.ocr_used /\ AllPresent
    /\ ret.val = F(255013683, 107374192)

(***************************************************************************)
(* Properties of the two paths of normalize_phone.                         *)
(***************************************************************************)
\* What the scan of the digit runs gives on the input.
ScanOf(text) == TryCandidates(FindDigitRuns(RemoveChars(text, Separators), 1), 1, lib)

\* The input is written in E.164: a plus sign and digits.
IsE164(text) ==
    /\ Len(text) >= 2 /\ text[1] = "+"
    /\ \A i \in 2..Len(text) : text[i] \in Digit

\* C25: an input that parses as a whole as a valid international number
\* gives the E.164 form of that number, whatever the digit runs would give;
\* a valid number written in E.164 is returned as it is, and normalize_phone
\* of a returned number is that number.
C25_DirectParseWins ==
    PhoneDone =>
        /\ ParsesAsValid => ret = Some(format_number(phonenumbers_parse(call.text)))
        /\ ParsesAsValid /\ IsE164(call.text) => ret = Some(call.text)
        /\ ret.some => normalize_phone(ret.val, lib) = ret

\* "+1 800 FLOWERS" holds no run of seven digits: the scan gives None, the
\* parse of the whole text gives +18003569377.
C25_Witness ==
    /\ PhoneDone /\ ParsesAsValid
    /\ call.text = <<"+", "1", " ", "8", "0", "0", " ", "F", "L", "O", "W", "E", "R", "S">>
    /\ ScanOf(call.text) = None
    /\ ret = Some(<<"+", "1", "8", "0", "0", "3", "5", "6", "9", "3", "7", "7">>)
    /\ normalize_phone(ret.val, lib) = ret

\* The candidates of the scan, in the order of the digit runs in the text
\* without its separators.
ScanCandidates(text) ==
    LET matches == FindDigitRuns(RemoveChars(text, Separators), 1)
    IN  [i \in 1..Len(matches) |-> PhoneCandidate(matches[i])]

\* The candidate parses and the library holds the number valid.
CandidateValid(candidate) ==
    phonenumbers_parse(candidate).ok /\ is_valid_number(phonenumbers_parse(candidate), lib)

\* C26: when the text as a whole is no valid number, normalize_phone returns
\* the E.164 form of the first candidate, in the order of the digit runs,
\* that parses as a valid number; a candidate that does not parse or is not
\* valid is passed over, and None is returned only when every candidate has
\* failed.
C26_FirstValidCandidate ==
    PhoneDone /\ ~ParsesAsValid =>
        LET cands == ScanCandidates(call.text)
            good  == {i \in 1..Len(cands) : CandidateValid(cands[i])}
        IN  IF good = {} THEN ret = None
            ELSE ret = Some(format_number(phonenumbers_parse(
                           cands[CHOOSE i \in good : \A j \in good : i <= j])))

\* "1234567, 0000000000, 9876543210": the first run does not parse, the
\* second is no valid number, the third is returned.
C26_Witness ==
    /\ PhoneDone /\ ~ParsesAsValid
    /\ call.text = <<"1", "2", "3", "4", "5", "6", "7", ",", " ", "0", "0", "0", "0", "0", "0", "0", "0", "0", "0", ",", " ", "9", "8", "7", "6", "5", "4", "3", "2", "1", "0">>
    /\ Len(ScanCandidates(call.text)) = 3
    /\ ~phonenumbers_parse(ScanCandidates(call.text)[1]).ok
    /\ phonenumbers_parse(ScanCandidates(call.text)[2]).ok
    /\ ~CandidateValid(ScanCandidates(call.text)[2])
    /\ ret = Some(<<"+", "9", "1", "9", "8", "7", "6", "5", "4", "3", "2", "1", "0">>)

(***************************************************************************)
(* extract_email on texts with two mailto links of different addresses,    *)
(* one written plainly and one as the value of an href attribute, in       *)
(* either order.                                                           *)
(***************************************************************************)
LinkAddresses ==
    { <<"a", "@", "b", ".", "c", "o">>, <<"j", "a", "n", "e", ".", "d", "o", "e", "@", "e", "x", "a", "m", "p", "l", "e", ".", "c", "o", "m">>, <<"I", "n", "f", "o", "@", "E", "x", "a", "m", "p", "l", "e", ".", "O", "R", "G">>, <<"x", "@", "y", ".", "i", "o">> }

LinkSeparators == { <<" ">>, <<"\n">>, <<" ", "o", "r", " ", "w", "r", "i", "t", "e", " ", "t", "o", " ">> }

LinkQuotes == { <<"\"">>, <<"'">> }

PlainLink(address) == <<"m", "a", "i", "l", "t", "o", ":">> \o address

HrefLink(address, quote) == <<"<", "a", " ", "h", "r", "e", "f", "=">> \o quote \o <<"m", "a", "i", "l", "t", "o", ":">> \o address \o quote \o <<">">>

TwoLinkCalls ==
    { [fn |-> "extract_email", plain |-> pair[1], href |-> pair[2],
       text |-> IF plain_first THEN PlainLink(pair[1]) \o sep \o HrefLink(pair[2], q)
                ELSE HrefLink(pair[2], q) \o sep \o PlainLink(pair[1])] :
        pair \in {p \in LinkAddresses \X LinkAddresses : p[1] # p[2]},
        sep \in LinkSeparators, q \in LinkQuotes, plain_first \in BOOLEAN }

InitLinks ==
    /\ pc = "call"
    /\ call \in TwoLinkCalls
    /\ ret = None
    /\ lib = {}
    /\ NoBatch

NextLinks ==
    \/ ExtractEmail

SpecLinks == InitLinks /\ [][NextLinks]_vars

\* C27: on a text with a plain mailto:X and an href="mailto:Y", X different
\* from Y, extract_email returns Y.
C27_HrefBeforePlain ==
    pc = "done" /\ call.fn = "extract_email" /\ call \in TwoLinkCalls =>
        ret = Some(StrLower(call.href))

(***************************************************************************)
(* Properties of the href tier of extract_linkedin.                        *)
(***************************************************************************)
\* The text is an href attribute whose value is a LinkedIn profile, written
\* with or without a scheme and with or without www.
LinkedinInHref ==
    /\ call.fn = "extract_linkedin"
    /\ \E scheme \in {<<>>, <<"h", "t", "t", "p", ":", "/", "/">>, <<"h", "t", "t", "p", "s", ":", "/", "/">>, <<"w", "w", "w", ".">>, <<"h", "t", "t", "p", "s", ":", "/", "/", "w", "w", "w", ".">>},
          host \in {<<"l", "i", "n", "k", "e", "d", "i", "n", ".", "c", "o", "m", "/", "i", "n", "/">>}, user \in UrlUsers :
           call.text = <<"h", "r", "e", "f", "=", "\"">> \o scheme \o host \o user \o <<"\"">>

\* C28: a LinkedIn URL found in an href attribute is returned with the
\* scheme https:// and the subdomain www., however the value was written.
C28_HrefGetsHttpsWww ==
    pc = "done" /\ LinkedinInHref =>
        /\ ret.some
        /\ StartsWith(ret.val, <<"h", "t", "t", "p", "s", ":", "/", "/", "w", "w", "w", ".", "l", "i", "n", "k", "e", "d", "i", "n", ".", "c", "o", "m", "/", "i", "n", "/">>)

(***************************************************************************)
(* extract_github on addresses whose user name breaks a rule of GitHub:    *)
(* a hyphen first or last, two hyphens in a row, more than 39 characters,  *)
(* an underscore; in an href attribute, after the label, in running text.  *)
(***************************************************************************)
HandleLeads ==
    { <<>>, <<"h", "r", "e", "f", "=", "\"">>, <<"h", "r", "e", "f", "=", "\"", "h", "t", "t", "p", "s", ":", "/", "/">>, <<"G", "i", "t", "H", "u", "b", ":", " ", "h", "t", "t", "p", "s", ":", "/", "/">>, <<"G", "i", "t", "H", "u", "b", ":", " ">>,
      <<"h", "t", "t", "p", "s", ":", "/", "/", "w", "w", "w", ".">>, <<"s", "e", "e", " ", "w", "w", "w", ".">> }

HandleUsers ==
    { <<"j", "a", "n", "e">>, <<"j">>, <<"a", "-", "b", "-", "c">>, <<"-", "j", "a", "n", "e">>, <<"j", "a", "n", "e", "-">>, <<"j", "a", "-", "-", "n", "e">>, <<"j", "a", "n", "e", "_", "d", "o", "e">>, <<"-", "-">>,
      <<"a", "1", "2", "3", "4", "5", "6", "7", "8", "9", "b", "1", "2", "3", "4", "5", "6", "7", "8", "9", "c", "1", "2", "3", "4", "5", "6", "7", "8", "9", "d", "1", "2", "3", "4", "5", "6", "7", "8", "-", "x">>,
      <<"a", "1", "2", "3", "4", "5", "6", "7", "8", "9", "b", "1", "2", "3", "4", "5", "6", "7", "8", "9", "c", "1", "2", "3", "4", "5", "6", "7", "8", "9", "d", "1", "2", "3", "4", "5", "6", "7", "8", "9", "e", "1", "2", "3", "4", "5">> }

HandleTails == { <<>>, <<"\"">>, <<"/", "r", "e", "p", "o">>, <<"-">> }

HandleTexts ==
    { lead \o <<"g", "i", "t", "h", "u", "b", ".", "c", "o", "m", "/">> \o user \o tail :
        lead \in HandleLeads, user \in HandleUsers, tail \in HandleTails }

InitHandle ==
    /\ pc = "call"
    /\ call \in [fn : {"extract_github"}, text : HandleTexts]
    /\ ret = None
    /\ lib = {}
    /\ NoBatch

NextHandle ==
    \/ ExtractGithub

SpecHandle == InitHandle /\ [][NextHandle]_vars

\* What follows the last "github.com/" of url.
HandleOf(url) ==
    LET host == <<"g", "i", "t", "h", "u", "b", ".", "c", "o", "m", "/">>
        at   == {i \in 1..(Len(url) - Len(host) + 1) :
                    StrLower(SubSeq(url, i, i + Len(host) - 1)) = host}
        last == CHOOSE i \in at : \A j \in at : j <= i
    IN  SubSeq(url, last + Len(host), Len(url))

\* 1 to 39 letters, digits and hyphens, no hyphen first or last, no two
\* hyphens in a row.
ValidHandle(u) ==
    /\ Len(u) \in 1..39
    /\ \A i \in 1..Len(u) : u[i] \in Alnum \cup {"-"}
    /\ u[1] # "-" /\ u[Len(u)] # "-"
    /\ \A i \in 1..(Len(u) - 1) : ~(u[i] = "-" /\ u[i + 1] = "-")

CandidatePool(text, feeds) == FirstLines(feeds) \cup AboveContact(text, feeds)

\* r is the trimmed form of a line of the pool, or None when no line of
\* the pool passes the filters.
FromPool(text, feeds, pool, r) ==
    /\ r.some => \E s \in pool : Strip(LineFrom(text, feeds, s)) = r.val
    /\ Passing(text, feeds, pool) = {} => r = None

\* C30: guess_name returns only the trimmed form of one of the first 30
\* lines or of a line right above a line of the first 50 that holds
\* "email", "phone", "contact", "mobile" or "tel"; a line outside this pool
\* is never returned, also when it passes every filter.
C30_OnlyFromPool ==
    pc = "done" /\ call.fn = "guess_name" =>
        FromPool(call.text, LineFeeds(call.text),
                 CandidatePool(call.text, LineFeeds(call.text)), ret)

\* A line that passes every filter stands outside the pool, no line of the
\* pool passes, and None is returned.
C30_Witness ==
    /\ pc = "done" /\ call.fn = "guess_name"
    /\ Passing(call.text, LineFeeds(call.text), LineStarts(LineFeeds(call.text))) # {}
    /\ Passing(call.text, LineFeeds(call.text),
               CandidatePool(call.text, LineFeeds(call.text))) = {}
    /\ ret = None

(***************************************************************************)
(* Properties of pdf_text_with_ocr_fallback.                               *)
(***************************************************************************)
\* What pdfminer's extract_text makes of the call's PDF is an exception, or
\* a text of fewer than 50 characters once stripped.
PrimaryShortOrRaised ==
    \/ ~call.data.miner.ok
    \/ Len(Strip(call.data.miner.text)) < OcrMinChars

\* A PDF which parse_resume_bytes has decoded and scored.
PdfDecoded ==
    /\ ParseDone
    /\ file_type(call.filename) = "pdf"
    /\ call.fault = "none"
    /\ pdf_text_with_ocr_fallback(call.data).out.ok

\* C31: for a PDF that is decoded, ocr_used is true exactly when pdfminer's
\* extraction yields fewer than 50 characters of stripped content or raises;
\* otherwise ocr_used is false.
C31_OcrIffPrimaryShort ==
    PdfDecoded => (ret.val.ocr_used <=> PrimaryShortOrRaised)

(***************************************************************************)
(* Properties of parse_resume_bytes on a text in which nothing is found.   *)
(***************************************************************************)
\* A text with no "@", no digit, no capital letter and no profile address:
\* it holds nothing an extractor or the name guesser could return.
Fieldless(text) ==
    /\ \A i \in 1..Len(text) : text[i] \notin Digit \cup Upper \cup {"@"}
    /\ ~ContainsCI(text, Str.linkedin_com_in)
    /\ ~ContainsCI(text, Str.github_com)

\* A supported file which is decoded, without a fault, to a fieldless text.
NothingFound ==
    /\ ParseDone /\ Supported
    /\ call.fault = "none"
    /\ DecoderOutcome.ok
    /\ Fieldless(DecoderOutcome.text)

\* C32: for a supported file whose decoded text holds no extractable field,
\* parse_resume_bytes returns all five fields None, an empty error list and
\* the bare score as confidence: 0.05 without OCR, 0.0 with OCR.
C32_NoMatchIsNoError ==
    NothingFound =>
        /\ ~ret.val.raised
        /\ ret.val.errors = <<>>
        /\ ret.val.parsed =
               [EmptyParsed EXCEPT !.confidence = IF ret.val.ocr_used THEN F0_0 ELSE F0_05]

\* A PDF whose text of 62 characters holds no field, read without OCR.
C32_Witness ==
    /\ NothingFound
    /\ file_type(call.filename) = "pdf"
    /\ DecoderOutcome.text = PlainText
    /\ ~ret.val.ocr_used
    /\ ret.val.parsed.confidence = F0_05

(***************************************************************************)
(* Properties of write_to_spreadsheet with skip_headers = True.            *)
(***************************************************************************)
\* The rows of before are the first rows of after, unchanged.
RowsKept(before, after) ==
    /\ Len(before) <= Len(after)
    /\ SubSeq(after, 1, Len(before)) = before

\* C33: the write of a batch, made with skip_headers = True, only adds rows
\* after the rows the spreadsheet holds: the header row and the rows of the
\* earlier batches are never overwritten, whatever the answer to the read
\* of the first row.
C33_RowsNeverOverwritten ==
    [][pc = "gather" => RowsKept(sheet, sheet')]_vars

(***************************************************************************)
(* Properties of submit_batch_parse_job.                                   *)
(***************************************************************************)
\* The task of the job is in the queue, or a worker has taken it.
TaskQueued == call.fn = "batch_parse_task"

\* The worker has not yet written anything for the job.
NothingWrittenByWorker == pc \in {"submit", "call"}

WrittenByWorker == TaskQueued /\ ~NothingWrittenByWorker /\ redis.status.some

\* C35: every status record the worker writes carries the created_at that
\* the submission recorded and the started_at of the task.
C35_TimestampsPreserved ==
    WrittenByWorker =>
        /\ "created_at" \in DOMAIN redis.status.val
        /\ redis.status.val.created_at = pending_status(call.spreadsheet_id).created_at
        /\ "started_at" \in DOMAIN redis.status.val
        /\ redis.status.val.started_at = StartedAt

(***************************************************************************)
(* A job on a flaky connection to Redis: every call of the handler and of  *)
(* the task to Redis either returns or raises.                             *)
(***************************************************************************)
InitStore ==
    /\ pc = "submit"
    /\ call \in JobCalls
    /\ ret = NoRet
    /\ lib = {}
    /\ tasks = <<>>
    /\ sem = 0
    /\ loc = <<>>
    /\ sheet = IF Truthy(call.spreadsheet_id) THEN <<header_row>> ELSE <<>>
    /\ redis = [status |-> None, results |-> None, flaky |-> TRUE]
    /\ reader = <<>>
    /\ frames = <<[at |-> 1]>>

NextStore ==
    \/ SubmitBatchParseJob
    \/ BatchParseTask
    \/ TaskListed
    \/ TaskEmpty
    \/ TaskGathered
    \/ TaskProgress
    \/ TaskStored
    \/ \E k \in 1..MaxFiles : Acquire(k)
    \/ \E k \in 1..MaxFiles : Download(k)
    \/ \E k \in 1..MaxFiles : Wake(k)

SpecStore == InitStore /\ [][NextStore]_vars

TerminalStatuses == {"completed", "failed", "revoked"}

\* The place of a status on the way pending, processing, terminal.
StatusRank(status) ==
    IF status = "pending" THEN 0 ELSE IF status = "processing" THEN 1 ELSE 2

\* A step that keeps the order of the statuses.
StatusStepForward ==
    /\ redis.status.some =>
         /\ redis'.status.some
         /\ StatusRank(redis'.status.val.status) >= StatusRank(redis.status.val.status)
    /\ (redis.status.some /\ redis.status.val.status \in TerminalStatuses) =>
         redis'.status.val.status = redis.status.val.status
    /\ (TaskQueued /\ redis'.status # redis.status) =>
         redis'.status.val.status # "pending"

\* C36: the status of a job only moves forward from pending to processing
\* to one of completed, failed and revoked: the worker never writes pending,
\* and a terminal status, once written, is not changed by a later write,
\* also when a later call to Redis of the same run raises.
C36_StatusMovesForward == [][StatusStepForward]_vars

\* The files of the fair specification: the download succeeds, fails once
\* with 503, fails every time with a timeout, or is not tried for want of
\* an id; no document can be read, and for one file log_parse_result raises.
FairFiles ==
    { [id |-> Some(<<"f", "1">>), name |-> Some(<<"a", ".", "d", "o", "c", "x">>), mimeType |-> Docx,
       download |-> Downloads, content |-> CorruptDocument, fault |-> "none"],
      [id |-> Some(<<"f", "2">>), name |-> Some(<<"b", ".", "p", "d", "f">>), mimeType |-> Pdf,
       download |-> Fails(1, "HTTPStatusError", 503, BatchStr.Service_Unavailable),
       content |-> CorruptDocument, fault |-> "none"],
      [id |-> None, name |-> Some(<<"c", ".", "p", "d", "f">>), mimeType |-> Pdf,
       download |-> Downloads, content |-> CorruptDocument, fault |-> "none"],
      [id |-> Some(<<"f", "6">>), name |-> Some(<<"f", ".", "p", "d", "f">>), mimeType |-> Pdf,
       download |-> Fails(MAX_RETRIES, "TimeoutException", 0, BatchStr.timed_out),
       content |-> CorruptDocument, fault |-> "none"],
      [id |-> Some(<<"f", "7">>), name |-> Some(<<"g", ".", "p", "d", "f">>), mimeType |-> Pdf,
       download |-> Downloads, content |-> CorruptDocument, fault |-> "log_parse_result"] }

FairFolders ==
    UNION { {folder \in [1..n -> FairFiles] :
                \A j, k \in 1..n : folder[j] = folder[k] => j = k} : n \in 0..MaxFiles }

InitFair ==
    /\ pc = "submit"
    /\ call \in [fn : {"submit_batch_parse_job"}, folder : FairFolders,
                 spreadsheet_id : {None, Some(<<"s", "0">>)},
                 x_google_bearer : {Some(<<"t", "o", "k", "e", "n">>)}]
    /\ ret = NoRet
    /\ lib = {}
    /\ tasks = <<>>
    /\ sem = 0
    /\ loc = <<>>
    /\ sheet = IF Truthy(call.spreadsheet_id) THEN <<header_row>> ELSE <<>>
    /\ redis = [status |-> None, results |-> None, flaky |-> TRUE]
    /\ reader = <<>>
    /\ frames = <<[at |-> 1]>>

\* The worker runs the task it has taken to its end, the event loop runs
\* every coroutine that is ready, and every outside call returns or raises:
\* a step that can be taken is taken.
FairStore == InitFair /\ [][NextStore]_vars /\ WF_vars(NextStore)

\* The worker has started the task of the job.
TaskStarted == TaskQueued /\ pc # "call"

\* The status record of the job reads completed, failed or revoked.
TerminalStatus == redis.status.some /\ redis.status.val.status \in TerminalStatuses

\* C37: every job whose task starts eventually has a terminal status, when
\* every call to Drive, Sheets and Redis returns or raises.
C37_ReachesTerminalStatus == TaskStarted ~> TerminalStatus

(***************************************************************************)
(* Properties of the write of a batch to the spreadsheet.                  *)
(***************************************************************************)
\* The rows the batches gathered so far had to write.
RowsDue ==
    IF call.fn = "batch_parse_resumes" THEN Len(loc.results)
    ELSE Len(task_data_rows(loc.results))

\* The write of a batch has failed: fewer rows are counted as written than
\* the gathered batches hold.
WriteFailed == loc # <<>> /\ loc.processed_count < RowsDue

\* C38: the failure of the write of a batch does not abort the job: a job
\* fails only before its first batch; after a failed write the batch goes
\* on, and a job that ends, unless revoked, ends completed with one entry
\* for every file.
C38_WriteFailureDoesNotAbort ==
    /\ pc = "failed" => tasks = <<>>
    /\ WriteFailed =>
         /\ pc = "gather" => BatchCanGoOn
         /\ pc = "done" =>
              IF call.fn = "batch_parse_resumes"
              THEN ret.kind = "response" /\ Len(ret.val) = Len(call.folder)
              ELSE \/ redis.status.val.status = "revoked"
                   \/ /\ redis.status.val.status = "completed"
                      /\ redis.results.some
                      /\ Len(redis.results.val) = Len(call.folder)

\* A job of three files has ended completed with its three entries stored:
\* the write of the first batch failed, and the row of the second is
\* counted.
C38_Witness ==
    /\ call.fn = "batch_parse_task"
    /\ pc = "done"
    /\ Len(call.folder) = 3
    /\ WriteFailed
    /\ loc.processed_count = 1
    /\ redis.status.val.status = "completed"
    /\ Len(redis.results.val) = 3

(***************************************************************************)
(* Properties of the counts in a status record.                            *)
(***************************************************************************)
\* C39: in every status record of a job that carries the fields,
\* 0 <= processed_files <= total_files and 0 <= progress <= 100.
C39_CountsInRange ==
    redis.status.some =>
        /\ "processed_files" \in DOMAIN redis.status.val =>
             /\ "total_files" \in DOMAIN redis.status.val
             /\ 0 <= redis.status.val.processed_files
             /\ redis.status.val.processed_files <= redis.status.val.total_files
        /\ "progress" \in DOMAIN redis.status.val =>
             /\ 0 <= redis.status.val.progress
             /\ redis.status.val.progress <= 100

\* The status after the first batch of a folder of three files: two files
\* of three processed, progress 66.
C39_Witness ==
    /\ redis.status.some
    /\ redis.status.val.status = "processing"
    /\ redis.status.val.total_files = 3
    /\ redis.status.val.processed_files = 2
    /\ redis.status.val.progress = 66

(***************************************************************************)
(* The calls of extract_linkedin and extract_github on a text that holds   *)
(* the addresses of two profiles and no href attribute.                    *)
(***************************************************************************)
SeveralSchemes == { <<>>, Str.https, Str.http \o Str.colon_slashes, Str.www_dot }

SeveralSeparators == { <<" ">>, <<"\n">>, <<"\t">>, <<",">> }

FirstUser == <<"j", "a", "n", "e">>

SecondUser == <<"o", "m", "a", "r">>

SeveralTexts(host) ==
    { scheme1 \o host \o FirstUser \o sep \o scheme2 \o host \o SecondUser :
        scheme1 \in SeveralSchemes, sep \in SeveralSeparators,
        scheme2 \in SeveralSchemes }

InitSeveral ==
    /\ pc = "call"
    /\ \/ call \in [fn : {"extract_linkedin"}, text : SeveralTexts(Str.linkedin_com_in)]
       \/ call \in [fn : {"extract_github"}, text : SeveralTexts(Str.github_com)]
    /\ ret = None
    /\ lib = {}
    /\ NoBatch

NextSeveral ==
    \/ ExtractLinkedin
    \/ ExtractGithub

SpecSeveral == InitSeveral /\ [][NextSeveral]_vars

\* The host of the profiles the called function looks for.
ProfileHost == IF call.fn = "extract_linkedin" THEN Str.linkedin_com_in ELSE Str.github_com

\* Where the first address of a profile begins in the text: the leftmost
\* occurrence of the host.
FirstProfileAt(text, host) ==
    CHOOSE i \in 1..(Len(text) - Len(host) + 1) :
        /\ SubSeq(StrLower(text), i, i + Len(host) - 1) = host
        /\ \A j \in 1..(i - 1) : SubSeq(StrLower(text), j, j + Len(host) - 1) # host

\* The user name of the first address: the letters, digits and hyphens that
\* follow the host.
FirstProfileUser(text, host) ==
    LET from == FirstProfileAt(text, host) + Len(host)
        stop == CHOOSE k \in from..(Len(text) + 1) :
                    /\ \A j \in from..(k - 1) : text[j] \in Alnum \cup {"-"}
                    /\ k = Len(text) + 1 \/ text[k] \notin Alnum \cup {"-"}
    IN  SubSeq(text, from, stop - 1)

\* C40: on a text without href attributes that holds several profile
\* addresses, the value returned is the address of the profile that occurs
\* first in the text.
C40_FirstInDocumentOrder ==
    pc = "done" =>
        /\ ret.some
        /\ EndsWith(ret.val, <<"/">> \o FirstProfileUser(call.text, ProfileHost))

====
